---- MODULE Spec2Model ----
(***************************************************************************)
(* Document-signing application: the DocumentSignature contract (the       *)
(* Signature Ledger), the DocumentSignatureService that wraps it (the      *)
(* Ledger Client) and the POST /:documentHash/sign route (the Lifecycle    *)
(* Coordinator's sign flow).                                               *)
(***************************************************************************)
EXTENDS Integers, Sequences, FiniteSets, TLC

(* ------------------------------ bounds --------------------------------- *)

\* block.timestamp ranges over 1..MaxTime
MaxTime == 2
\* longest signer list a caller passes to createDocument
MaxSigners == 2

(* ------------------------------ universes ------------------------------ *)

\* 20-byte account identities
Address == {"A", "B", "W"}
\* document hashes (hex digests)
Hashes == {"h1"}
\* IPFS metadata references; "" is the empty reference
Refs == {"", "Qm1"}

\* identities that callers of createDocument name as signers; the remaining
\* identity is a signer of no document created here
SignerPool == {"A", "B"}

\* address[] values of length 0..MaxSigners, repeated entries included
SignerLists == UNION {[1..n -> SignerPool] : n \in 0..MaxSigners}

(* --------------------------- ledger data model ------------------------- *)

\* struct Signature, zero-valued
ZeroSignature == [signed |-> FALSE, timestamp |-> 0, ipfsHash |-> ""]

\* struct Document, zero-valued (what an unset mapping slot reads as)
ZeroDocument ==
    [documentHash |-> "", signers |-> <<>>, timestamp |-> 0,
     isActive |-> FALSE, signatures |-> [a \in Address |-> ZeroSignature]]

\* revert reasons of the contract's require statements
ErrNotExist == "Document does not exist"
ErrNotActive == "Document is not active"
ErrExists == "Document already exists"
ErrNoSigner == "Must have at least one signer"
ErrNotAuthorized == "Not authorized to sign this document"
ErrAlreadySigned == "Already signed"

VARIABLES
    documents,      \* mapping(string => Document)
    userDocuments,  \* mapping(address => string[])
    now,            \* block.timestamp of the block being mined
    lastTx,         \* receipt of the latest mutating call: fn, sender, hash, status, event
    requests,       \* the sign requests being handled by the route, one record each
    lastCall,       \* the latest call on the Ledger Client: operation, arguments, outcome
    createReq,      \* the create request being handled: position, inputs, response
    listening,      \* listenForSignatureEvents has registered its two listeners
    pending,        \* per event kind, the logs emitted and not yet handed to the listener
    delivered,      \* the notifications the listener's callback has received, in order
    connected,      \* the socket.io clients that are connected
    rooms,          \* per client, the rooms its socket has joined
    inbox,          \* per client, the messages emitted to its socket
    wallClock,      \* Date.now() of the server process
    rateLimitStore, \* Map identifier -> timestamps of the requests recorded for it
    admitted,       \* per identifier, the times at which the limiter called next()
    lastRate,       \* the latest request the limiter handled and its answer
    nonces,         \* AuthService.nonces: Map lower-case address -> {nonce, expiresAt}
    issued,         \* every nonce generateNonce has returned, in order, with its key and expiry
    held,           \* the signature the client holds: signing key and signed message
    lastAuth,       \* the result of the latest authenticateWithWallet call, and whether
                    \* its arguments had authenticated before
    succeeded,      \* the (address, signature, nonce) triples that have authenticated
    tally           \* a document by its counts: signers, signers that signed, percentage read

ledgerVars == <<documents, userDocuments, now, lastTx>>
eventVars == <<listening, pending, delivered, connected, rooms, inbox>>
serverVars == <<wallClock, rateLimitStore, admitted, lastRate,
                nonces, issued, held, lastAuth, succeeded, tally>>
otherVars == <<lastCall, createReq, eventVars, serverVars>>

NoTx == [fn |-> "none", sender |-> "", documentHash |-> "", status |-> "", event |-> ""]

Receipt(fn, sender, h, status, event) ==
    [fn |-> fn, sender |-> sender, documentHash |-> h, status |-> status, event |-> event]

(* ----------------------- contract: modifiers --------------------------- *)

\* modifier documentExists
documentExists(docs, h) == docs[h].timestamp > 0

\* documentActive testing existence instead of the isActive flag
documentActive_exists(docs, h) == docs[h].timestamp > 0

\* modifier documentActive
documentActive(docs, h) == docs[h].isActive

(* ----------------------- contract: createDocument ---------------------- *)

\* createDocument without its first require: an existing hash is overwritten
createDocument_overwrite(docs, udocs, t, sender, h, requiredSigners) ==
    IF ~(Len(requiredSigners) > 0)
    THEN [status |-> ErrNoSigner, documents |-> docs, userDocuments |-> udocs, event |-> ""]
    ELSE [status |-> "ok",
          documents |-> [docs EXCEPT ![h] =
                            [@ EXCEPT !.documentHash = h,
                                      !.signers = requiredSigners,
                                      !.timestamp = t,
                                      !.isActive = TRUE]],
          userDocuments |-> [udocs EXCEPT ![sender] = Append(@, h)],
          event |-> "DocumentCreated"]

\* Outcome of createDocument(_documentHash, _requiredSigners) sent by sender
\* at block time t: the revert reason or "ok", and the storage afterwards.
createDocument(docs, udocs, t, sender, h, requiredSigners) ==
    IF docs[h].timestamp # 0
    THEN [status |-> ErrExists, documents |-> docs, userDocuments |-> udocs, event |-> ""]
    ELSE IF ~(Len(requiredSigners) > 0)
    THEN [status |-> ErrNoSigner, documents |-> docs, userDocuments |-> udocs, event |-> ""]
    ELSE [status |-> "ok",
          documents |-> [docs EXCEPT ![h] =
                            [@ EXCEPT !.documentHash = h,
                                      !.signers = requiredSigners,
                                      !.timestamp = t,
                                      !.isActive = TRUE]],
          userDocuments |-> [udocs EXCEPT ![sender] = Append(@, h)],
          event |-> "DocumentCreated"]

(* ----------------------- contract: signDocument ------------------------ *)

\* the authorization loop of signDocument: linear scan with break on first match
RECURSIVE authorizedFrom(_, _, _)
authorizedFrom(signers, i, sender) ==
    IF i > Len(signers) THEN FALSE
    ELSE IF signers[i] = sender THEN TRUE
    ELSE authorizedFrom(signers, i + 1, sender)

authorized(signers, sender) == authorizedFrom(signers, 1, sender)

\* signDocument without require(authorized, ...)
signDocument_noAuthorization(docs, t, sender, h, signatureIpfsHash) ==
    IF ~documentExists(docs, h)
    THEN [status |-> ErrNotExist, documents |-> docs, event |-> ""]
    ELSE IF ~documentActive(docs, h)
    THEN [status |-> ErrNotActive, documents |-> docs, event |-> ""]
    ELSE IF docs[h].signatures[sender].signed
    THEN [status |-> ErrAlreadySigned, documents |-> docs, event |-> ""]
    ELSE [status |-> "ok",
          documents |-> [docs EXCEPT ![h].signatures[sender] =
                            [signed |-> TRUE, timestamp |-> t,
                             ipfsHash |-> signatureIpfsHash]],
          event |-> "DocumentSigned"]

\* signDocument without require(!doc.signatures[msg.sender].signed, ...)
signDocument_resign(docs, t, sender, h, signatureIpfsHash) ==
    IF ~documentExists(docs, h)
    THEN [status |-> ErrNotExist, documents |-> docs, event |-> ""]
    ELSE IF ~documentActive(docs, h)
    THEN [status |-> ErrNotActive, documents |-> docs, event |-> ""]
    ELSE IF ~authorized(docs[h].signers, sender)
    THEN [status |-> ErrNotAuthorized, documents |-> docs, event |-> ""]
    ELSE [status |-> "ok",
          documents |-> [docs EXCEPT ![h].signatures[sender] =
                            [signed |-> TRUE, timestamp |-> t,
                             ipfsHash |-> signatureIpfsHash]],
          event |-> "DocumentSigned"]

\* Outcome of signDocument(_documentHash, _signatureIpfsHash) sent by sender
signDocument(docs, t, sender, h, signatureIpfsHash) ==
    IF ~documentExists(docs, h)
    THEN [status |-> ErrNotExist, documents |-> docs, event |-> ""]
    ELSE IF ~documentActive(docs, h)
    THEN [status |-> ErrNotActive, documents |-> docs, event |-> ""]
    ELSE IF ~authorized(docs[h].signers, sender)
    THEN [status |-> ErrNotAuthorized, documents |-> docs, event |-> ""]
    ELSE IF docs[h].signatures[sender].signed
    THEN [status |-> ErrAlreadySigned, documents |-> docs, event |-> ""]
    ELSE [status |-> "ok",
          documents |-> [docs EXCEPT ![h].signatures[sender] =
                            [signed |-> TRUE, timestamp |-> t,
                             ipfsHash |-> signatureIpfsHash]],
          event |-> "DocumentSigned"]

(* ----------------------- contract: revokeDocument ---------------------- *)

\* revokeDocument deleting the document's slot
revokeDocument_delete(docs, sender, h) ==
    IF ~documentExists(docs, h)
    THEN [status |-> ErrNotExist, documents |-> docs, event |-> ""]
    ELSE [status |-> "ok",
          documents |-> [docs EXCEPT ![h] = ZeroDocument],
          event |-> "DocumentRevoked"]

\* revokeDocument open to the document's signers only
revokeDocument_signersOnly(docs, sender, h) ==
    IF ~documentExists(docs, h)
    THEN [status |-> ErrNotExist, documents |-> docs, event |-> ""]
    ELSE IF ~authorized(docs[h].signers, sender)
    THEN [status |-> ErrNotAuthorized, documents |-> docs, event |-> ""]
    ELSE [status |-> "ok",
          documents |-> [docs EXCEPT ![h].isActive = FALSE],
          event |-> "DocumentRevoked"]

\* revokeDocument that also clears the document's signatures
revokeDocument_erase(docs, sender, h) ==
    IF ~documentExists(docs, h)
    THEN [status |-> ErrNotExist, documents |-> docs, event |-> ""]
    ELSE [status |-> "ok",
          documents |-> [docs EXCEPT ![h].isActive = FALSE,
                                     ![h].signatures = [a \in Address |-> ZeroSignature]],
          event |-> "DocumentRevoked"]

\* Outcome of revokeDocument(_documentHash) sent by sender
revokeDocument(docs, sender, h) ==
    IF ~documentExists(docs, h)
    THEN [status |-> ErrNotExist, documents |-> docs, event |-> ""]
    ELSE [status |-> "ok",
          documents |-> [docs EXCEPT ![h].isActive = FALSE],
          event |-> "DocumentRevoked"]

(* ----------------------- contract: views ------------------------------- *)

\* the completion loop stopping one entry short (i < length - 1)
RECURSIVE fullySignedFrom_short(_, _, _)
fullySignedFrom_short(docs, h, i) ==
    IF i > Len(docs[h].signers) - 1 THEN TRUE
    ELSE IF ~docs[h].signatures[docs[h].signers[i]].signed THEN FALSE
    ELSE fullySignedFrom_short(docs, h, i + 1)

\* the completion loop of isFullySigned: returns false at the first unsigned entry
RECURSIVE fullySignedFrom(_, _, _)
fullySignedFrom(docs, h, i) ==
    IF i > Len(docs[h].signers) THEN TRUE
    ELSE IF ~docs[h].signatures[docs[h].signers[i]].signed THEN FALSE
    ELSE fullySignedFrom(docs, h, i + 1)

isFullySigned(docs, h) ==
    IF ~documentExists(docs, h)
    THEN [ok |-> FALSE, error |-> ErrNotExist, value |-> FALSE]
    ELSE [ok |-> TRUE, error |-> "", value |-> fullySignedFrom(docs, h, 1)]

getSignature(docs, h, signer) ==
    IF ~documentExists(docs, h)
    THEN [ok |-> FALSE, error |-> ErrNotExist,
          signed |-> FALSE, timestamp |-> 0, ipfsHash |-> ""]
    ELSE [ok |-> TRUE, error |-> "",
          signed |-> docs[h].signatures[signer].signed,
          timestamp |-> docs[h].signatures[signer].timestamp,
          ipfsHash |-> docs[h].signatures[signer].ipfsHash]

\* getDocumentSigners refusing a revoked document
getDocumentSigners_activeOnly(docs, h) ==
    IF ~documentExists(docs, h)
    THEN [ok |-> FALSE, error |-> ErrNotExist, value |-> <<>>]
    ELSE IF ~documentActive(docs, h)
    THEN [ok |-> FALSE, error |-> ErrNotActive, value |-> <<>>]
    ELSE [ok |-> TRUE, error |-> "", value |-> docs[h].signers]

getDocumentSigners(docs, h) ==
    IF ~documentExists(docs, h)
    THEN [ok |-> FALSE, error |-> ErrNotExist, value |-> <<>>]
    ELSE [ok |-> TRUE, error |-> "", value |-> docs[h].signers]

getUserDocuments(udocs, user) == udocs[user]

\* verifyDocumentSignature calling a signature valid only while the document is active
verifyDocumentSignature_activeOnly(docs, h, signer) ==
    IF docs[h].timestamp = 0
    THEN [isValid |-> FALSE, signedAt |-> 0, documentActive |-> FALSE]
    ELSE [isValid |-> docs[h].signatures[signer].signed /\ docs[h].isActive,
          signedAt |-> docs[h].signatures[signer].timestamp,
          documentActive |-> docs[h].isActive]

verifyDocumentSignature(docs, h, signer) ==
    IF docs[h].timestamp = 0
    THEN [isValid |-> FALSE, signedAt |-> 0, documentActive |-> FALSE]
    ELSE [isValid |-> docs[h].signatures[signer].signed,
          signedAt |-> docs[h].signatures[signer].timestamp,
          documentActive |-> docs[h].isActive]

(* ----------------------- sign route: request data ---------------------- *)

\* concurrent requests the server is handling
Requests == {"r1", "r2"}

\* an address written as a string: the account it denotes and its letter case
Forms == {"checksum", "lower"}
AddrStrings == [id : Address, form : Forms]

\* String.prototype.toLowerCase on an address string
toLowerCase(s) == IF s.form = "bare" THEN s ELSE [id |-> s.id, form |-> "lower"]

\* how ethers returns an address read from the contract
checksumString(a) == [id |-> a, form |-> "checksum"]

\* how ethers encodes an address string passed as a call argument
addressOf(s) == s.id

\* the account of config.privateKey: the sender of every transaction of the service
walletAddress == "W"

NoUser == [id |-> "", form |-> ""]

IdleRequest ==
    [pc |-> "idle", user |-> NoUser, documentHash |-> "", hasMetadata |-> FALSE,
     sigRead |-> "", ipfsHash |-> "", uploadCalled |-> FALSE, signCalled |-> FALSE,
     status |-> 0, error |-> ""]

(* ----------------------- Ledger Client (DocumentSignatureService) ------- *)

\* error.message of a call that never reached the ledger
ErrNetwork == "could not detect network"

\* getRequiredSigners: up = FALSE is a read that the RPC transport fails
getRequiredSigners(docs, up, h) ==
    LET r == getDocumentSigners(docs, h) IN
    IF ~up THEN [success |-> FALSE, error |-> ErrNetwork, signers |-> <<>>]
    ELSE IF ~r.ok THEN [success |-> FALSE, error |-> r.error, signers |-> <<>>]
    ELSE [success |-> TRUE, error |-> "",
          signers |-> [i \in DOMAIN r.value |-> checksumString(r.value[i])]]

\* getSignatureStatus
getSignatureStatus(docs, up, h, signerAddress) ==
    LET r == getSignature(docs, h, addressOf(signerAddress)) IN
    IF ~up THEN [success |-> FALSE, error |-> ErrNetwork,
                 signed |-> FALSE, timestamp |-> 0, signatureMetadata |-> ""]
    ELSE IF ~r.ok THEN [success |-> FALSE, error |-> r.error,
                        signed |-> FALSE, timestamp |-> 0, signatureMetadata |-> ""]
    ELSE [success |-> TRUE, error |-> "", signed |-> r.signed,
          timestamp |-> r.timestamp, signatureMetadata |-> r.ipfsHash]

\* the signer the service's signDocument transaction is sent from (this.wallet)
serviceSigner == walletAddress

(* ----------------------- sign route: POST /:documentHash/sign ---------- *)

\* signature.filter(sig => sig.signed).length over the document's signers
signedCount(docs, h) ==
    Cardinality({i \in DOMAIN docs[h].signers : docs[h].signatures[docs[h].signers[i]].signed})

\* the comparison without toLowerCase
isAuthorized_caseSensitive(signers, signerAddress) ==
    \E i \in DOMAIN signers : signers[i] = signerAddress

\* signersResult.signers.some(signer => signer.toLowerCase() === signerAddress.toLowerCase())
isAuthorized(signers, signerAddress) ==
    \E i \in DOMAIN signers : toLowerCase(signers[i]) = toLowerCase(signerAddress)

\* the reference the metadata store returns for an uploaded signature metadata
UploadedRef == "Qm1"

Respond(r, code, err) ==
    requests' = [requests EXCEPT ![r].pc = "done", ![r].status = code, ![r].error = err]

\* a request passed authMiddleware and validateSignature: req.user.address = user
StartSign(r, user, h, meta) ==
    /\ requests[r].pc = "idle"
    /\ requests' = [requests EXCEPT ![r] =
                       [IdleRequest EXCEPT !.pc = "authorize", !.user = user,
                                           !.documentHash = h, !.hasMetadata = meta]]
    /\ UNCHANGED <<ledgerVars, otherVars>>

\* lines 35-52: read the required signers, 404 on a failed read, 403 when absent
Authorize(r, up) ==
    LET q == requests[r]
        signersResult == getRequiredSigners(documents, up, q.documentHash) IN
    /\ q.pc = "authorize"
    /\ IF ~signersResult.success THEN Respond(r, 404, "Document not found")
       ELSE IF ~isAuthorized(signersResult.signers, q.user)
       THEN Respond(r, 403, "Not authorized to sign this document")
       ELSE requests' = [requests EXCEPT ![r].pc = "checkSigned"]
    /\ UNCHANGED <<ledgerVars, otherVars>>

\* the already-signed check without its return: the flow goes on to sign
CheckSigned_noReturn(r, up) ==
    LET q == requests[r]
        existingSignature == getSignatureStatus(documents, up, q.documentHash, q.user) IN
    /\ q.pc = "checkSigned"
    /\ requests' = [requests EXCEPT
                       ![r].pc = IF q.hasMetadata THEN "upload" ELSE "sign",
                       ![r].sigRead = IF existingSignature.success
                                      THEN "unsigned" ELSE "failed"]
    /\ UNCHANGED <<ledgerVars, otherVars>>

\* lines 54-65: read the current signature, 409 when the read succeeds and shows signed
CheckSigned(r, up) ==
    LET q == requests[r]
        existingSignature == getSignatureStatus(documents, up, q.documentHash, q.user) IN
    /\ q.pc = "checkSigned"
    /\ IF existingSignature.success /\ existingSignature.signed
       THEN requests' = [requests EXCEPT ![r].pc = "done", ![r].status = 409,
                                         ![r].error = "Document already signed by this address",
                                         ![r].sigRead = "signed"]
       ELSE requests' = [requests EXCEPT
                            ![r].pc = IF q.hasMetadata THEN "upload" ELSE "sign",
                            ![r].sigRead = IF existingSignature.success
                                           THEN "unsigned" ELSE "failed"]
    /\ UNCHANGED <<ledgerVars, otherVars>>

\* the upload without its try/catch: an exception ends the request with 500
Upload_uncaught(r, outcome) ==
    /\ requests[r].pc = "upload"
    /\ IF outcome = "throws"
       THEN requests' = [requests EXCEPT ![r].pc = "done", ![r].status = 500,
                                         ![r].uploadCalled = TRUE,
                                         ![r].error = "Failed to upload to IPFS"]
       ELSE requests' = [requests EXCEPT ![r].pc = "sign", ![r].uploadCalled = TRUE,
                                         ![r].ipfsHash = IF outcome = "stored"
                                                         THEN UploadedRef ELSE ""]
    /\ UNCHANGED <<ledgerVars, otherVars>>

\* lines 67-93: upload the metadata; outcome is a reference, an unsuccessful
\* result or an exception, and only the first sets ipfsHash
UploadOutcomes == {"stored", "unsuccessful", "throws"}

Upload(r, outcome) ==
    /\ requests[r].pc = "upload"
    /\ requests' = [requests EXCEPT ![r].pc = "sign", ![r].uploadCalled = TRUE,
                                    ![r].ipfsHash = IF outcome = "stored"
                                                    THEN UploadedRef ELSE ""]
    /\ UNCHANGED <<ledgerVars, otherVars>>

\* lines 95-103: signatureService.signDocument(documentHash, ipfsHash); the
\* transaction is sent from the service's wallet; 500 when it is rejected
SignOnLedger(r, up) ==
    LET q == requests[r]
        res == signDocument(documents, now, serviceSigner, q.documentHash, q.ipfsHash) IN
    /\ q.pc = "sign"
    /\ IF ~up
       THEN /\ requests' = [requests EXCEPT ![r].pc = "done", ![r].status = 500,
                                            ![r].error = ErrNetwork,
                                            ![r].signCalled = TRUE]
            /\ UNCHANGED <<ledgerVars, otherVars>>
       ELSE /\ documents' = res.documents
            /\ lastTx' = Receipt("signDocument", serviceSigner, q.documentHash,
                                 res.status, res.event)
            /\ IF res.status = "ok"
               THEN requests' = [requests EXCEPT ![r].pc = "respond",
                                                 ![r].signCalled = TRUE]
               ELSE requests' = [requests EXCEPT ![r].pc = "done", ![r].status = 500,
                                                 ![r].error = res.status,
                                                 ![r].signCalled = TRUE]
            /\ UNCHANGED <<userDocuments, now, otherVars>>

\* lines 105-122: the completion and progress reads are for display only; 200
RespondSigned(r) ==
    /\ requests[r].pc = "respond"
    /\ Respond(r, 200, "")
    /\ UNCHANGED <<ledgerVars, otherVars>>

\* the response was sent; the slot takes the next request
Finish(r) ==
    /\ requests[r].pc = "done"
    /\ requests' = [requests EXCEPT ![r] = IdleRequest]
    /\ UNCHANGED <<ledgerVars, otherVars>>

(* ----------------------- initial state --------------------------------- *)

\* no call has been made on the Ledger Client yet
NoCall == [op |-> "none", documentHash |-> "", ups |-> <<>>, raised |-> FALSE,
           result |-> [success |-> FALSE]]

\* req.headers.authorization when the request has no such header
NoHeader == [present |-> FALSE, parts |-> <<>>]

\* fields a create request leaves out
UndefinedText == [type |-> "undefined", length |-> 0]
UndefinedDate == [type |-> "undefined", time |-> 0]
UndefinedSigners == [type |-> "undefined", json |-> "empty", items |-> <<>>]
UndefinedFile == [type |-> "undefined", size |-> 0, nameLength |-> 0]

\* no create request is being handled
IdleCreate ==
    [pc |-> "idle", header |-> NoHeader,
     body |-> [signers |-> UndefinedSigners, title |-> UndefinedText,
               description |-> UndefinedText, expiresAt |-> UndefinedDate,
               file |-> UndefinedFile],
     user |-> NoUser,
     validated |-> FALSE, createCalled |-> FALSE, status |-> 0, error |-> ""]

\* the events the service listens for
EventKinds == {"DocumentCreated", "DocumentSigned"}

\* socket.io clients
Clients == {"c1", "c2"}

\* caller identifiers of the rate limiter: req.user?.address || req.ip
Identifiers == {"ip1", "ip2"}

\* a Map with no entries
EmptyMap == [k \in {} |-> <<>>]

\* no document is followed by its counts
NoTally == [totalSigners |-> 0, signedCount |-> 0, percentComplete |-> 0]

\* the client holds no signature
NoSignature == [key |-> "", message |-> [address |-> NoUser, nonce |-> 0, timestamp |-> 0]]

\* authenticateWithWallet has not been called
NoAuth == [replayed |-> FALSE, success |-> FALSE, error |-> "", token |-> ""]

Init ==
    /\ documents = [h \in Hashes |-> ZeroDocument]
    /\ userDocuments = [a \in Address |-> <<>>]
    /\ now = 1
    /\ lastTx = NoTx
    /\ requests = [r \in Requests |-> IdleRequest]
    /\ lastCall = NoCall
    /\ createReq = IdleCreate
    /\ listening = FALSE
    /\ pending = [k \in EventKinds |-> <<>>]
    /\ delivered = <<>>
    /\ connected = {}
    /\ rooms = [c \in Clients |-> {}]
    /\ inbox = [c \in Clients |-> {}]
    /\ wallClock = 0
    /\ rateLimitStore = EmptyMap
    /\ admitted = [id \in Identifiers |-> <<>>]
    /\ lastRate = [identifier |-> "", status |-> 0]
    /\ nonces = EmptyMap
    /\ issued = <<>>
    /\ held = NoSignature
    /\ lastAuth = NoAuth
    /\ succeeded = {}
    /\ tally = NoTally

(* ----------------------- ledger transactions --------------------------- *)

\* a later block is mined: block.timestamp grows
Tick ==
    /\ now < MaxTime
    /\ now' = now + 1
    /\ UNCHANGED <<documents, userDocuments, lastTx, requests, otherVars>>

\* a createDocument transaction by any account
CreateDocumentTx(sender, h, requiredSigners) ==
    LET r == createDocument(documents, userDocuments, now, sender, h, requiredSigners) IN
    /\ documents' = r.documents
    /\ userDocuments' = r.userDocuments
    /\ lastTx' = Receipt("createDocument", sender, h, r.status, r.event)
    /\ UNCHANGED <<now, requests, otherVars>>

\* a signDocument transaction by any account
SignDocumentTx(sender, h, ref) ==
    LET r == signDocument(documents, now, sender, h, ref) IN
    /\ documents' = r.documents
    /\ lastTx' = Receipt("signDocument", sender, h, r.status, r.event)
    /\ UNCHANGED <<userDocuments, now, requests, otherVars>>

\* a revokeDocument transaction by any account
RevokeDocumentTx(sender, h) ==
    LET r == revokeDocument(documents, sender, h) IN
    /\ documents' = r.documents
    /\ lastTx' = Receipt("revokeDocument", sender, h, r.status, r.event)
    /\ UNCHANGED <<userDocuments, now, requests, otherVars>>

\* any account sends any of the three transactions, or a block is mined
Next ==
    \/ Tick
    \/ \E s \in Address, h \in Hashes, l \in SignerLists : CreateDocumentTx(s, h, l)
    \/ \E s \in Address, h \in Hashes, ref \in Refs : SignDocumentTx(s, h, ref)
    \/ \E s \in Address, h \in Hashes : RevokeDocumentTx(s, h)

vars == <<documents, userDocuments, now, lastTx, requests, otherVars>>

Spec == Init /\ [][Next]_vars

(* ======================= properties of the ledger ====================== *)

\* the identities that occur in a document's signers sequence
SignerSet(h) == {documents[h].signers[i] : i \in DOMAIN documents[h].signers}

Exists(h) == documents[h].timestamp > 0

\* C1: createDocument on an unused hash with a non-empty signer list succeeds
\* and stores the document with active = true; createDocument on a hash that
\* exists fails with 'Document already exists' and leaves every document,
\* every Signature record and every creator's index as they were;
\* createDocument with an empty signer list fails and creates nothing.
C1_CreateOnce ==
    \A s \in Address, h \in Hashes, l \in SignerLists :
        LET r == createDocument(documents, userDocuments, now, s, h, l) IN
        /\ (~Exists(h) /\ Len(l) > 0) =>
               /\ r.status = "ok"
               /\ r.documents[h].isActive
               /\ r.documents[h].signers = l
               /\ r.documents[h].timestamp = now
               /\ \A a \in Address : ~r.documents[h].signatures[a].signed
               /\ r.userDocuments[s] = Append(userDocuments[s], h)
        /\ Exists(h) =>
               /\ r.status = ErrExists
               /\ r.documents = documents
               /\ r.userDocuments = userDocuments
        /\ Len(l) = 0 =>
               /\ r.status \in {ErrExists, ErrNoSigner}
               /\ r.documents = documents
               /\ r.userDocuments = userDocuments
        /\ (lastTx.fn = "createDocument" /\ lastTx.status = "ok") =>
               /\ Exists(lastTx.documentHash)
               /\ Len(documents[lastTx.documentHash].signers) > 0

\* C1 witness: a second createDocument on a document that already carries a
\* signature was rejected as a conflict, in a later block than the creation
C1_Witness ==
    /\ lastTx.fn = "createDocument" /\ lastTx.status = ErrExists
    /\ \E a \in Address : documents[lastTx.documentHash].signatures[a].signed
    /\ now > documents[lastTx.documentHash].timestamp
    /\ \E a \in Address : userDocuments[a] = <<lastTx.documentHash>>

\* C3 as stated: an identity outside the signers sequence never has a signed
\* record, and its signDocument call on an existing document fails as not
\* authorized, changing nothing.
C3_Original ==
    \A h \in Hashes, x \in Address :
        (Exists(h) /\ x \notin SignerSet(h)) =>
            /\ ~documents[h].signatures[x].signed
            /\ (lastTx.fn = "signDocument" /\ lastTx.documentHash = h /\ lastTx.sender = x)
                   => lastTx.status = ErrNotAuthorized

\* C3 amended: an identity outside the signers sequence never has a signed
\* record; its signDocument call on an existing document changes nothing and
\* fails, as not authorized while the document is active and as 'Document is
\* not active' once the document is revoked.
C3_OutsiderNeverSigns ==
    \A h \in Hashes, x \in Address :
        (Exists(h) /\ x \notin SignerSet(h)) =>
            /\ ~documents[h].signatures[x].signed
            /\ \A ref \in Refs :
                   LET r == signDocument(documents, now, x, h, ref) IN
                   /\ r.status = IF documents[h].isActive
                                 THEN ErrNotAuthorized ELSE ErrNotActive
                   /\ r.documents = documents
            /\ (lastTx.fn = "signDocument" /\ lastTx.documentHash = h /\ lastTx.sender = x)
                   => lastTx.status \in {ErrNotAuthorized, ErrNotActive}

\* C3 witness: an outsider's signDocument was rejected as not authorized on an
\* active document that a declared signer has signed
C3_Witness ==
    /\ lastTx.fn = "signDocument" /\ lastTx.status = ErrNotAuthorized
    /\ Exists(lastTx.documentHash)
    /\ lastTx.sender \notin SignerSet(lastTx.documentHash)
    /\ documents[lastTx.documentHash].isActive
    /\ \E a \in SignerSet(lastTx.documentHash) :
           documents[lastTx.documentHash].signatures[a].signed

\* C4: on an active document a declared signer's first signDocument succeeds,
\* a second one (same or another metadata reference, same or later block)
\* fails with 'Already signed', and the ledger after both calls is the ledger
\* after the first.
C4_SignIdempotent ==
    \A h \in Hashes, s \in Address :
        (Exists(h) /\ documents[h].isActive /\ s \in SignerSet(h)) =>
            /\ ~documents[h].signatures[s].signed =>
                   \A ref1 \in Refs, ref2 \in Refs, t2 \in now..MaxTime :
                       LET r1 == signDocument(documents, now, s, h, ref1)
                           r2 == signDocument(r1.documents, t2, s, h, ref2) IN
                       /\ r1.status = "ok"
                       /\ r1.documents[h].signatures[s] =
                              [signed |-> TRUE, timestamp |-> now, ipfsHash |-> ref1]
                       /\ r2.status = ErrAlreadySigned
                       /\ r2.documents = r1.documents
            /\ documents[h].signatures[s].signed =>
                   \A ref \in Refs :
                       LET r == signDocument(documents, now, s, h, ref) IN
                       /\ r.status = ErrAlreadySigned
                       /\ r.documents = documents

\* C4 witness: a signer's second signDocument, in a later block than the
\* first, was rejected with 'Already signed'
C4_Witness ==
    /\ lastTx.fn = "signDocument" /\ lastTx.status = ErrAlreadySigned
    /\ documents[lastTx.documentHash].signatures[lastTx.sender].signed
    /\ documents[lastTx.documentHash].signatures[lastTx.sender].timestamp < now
    /\ documents[lastTx.documentHash].signatures[lastTx.sender].ipfsHash # ""

\* C5: isFullySigned fails exactly for a document that does not exist, and
\* for an existing one returns true iff every entry of the signers sequence
\* has getSignature(...).signed = true.
C5_FullySignedIff ==
    \A h \in Hashes :
        /\ isFullySigned(documents, h).ok <=> Exists(h)
        /\ ~Exists(h) => isFullySigned(documents, h).error = ErrNotExist
        /\ Exists(h) =>
               (isFullySigned(documents, h).value <=>
                    \A i \in DOMAIN documents[h].signers :
                        getSignature(documents, h, documents[h].signers[i]).signed)

\* C5 witness: two distinct signers, the first has signed and the second has
\* not, and isFullySigned answers false
C5_Witness ==
    \E h \in Hashes :
        /\ Exists(h) /\ Len(documents[h].signers) = 2
        /\ documents[h].signers[1] # documents[h].signers[2]
        /\ documents[h].signatures[documents[h].signers[1]].signed
        /\ ~documents[h].signatures[documents[h].signers[2]].signed
        /\ isFullySigned(documents, h) = [ok |-> TRUE, error |-> "", value |-> FALSE]

\* what getSignature and verifyDocumentSignature return for every identity
SignatureReads(docs, h) ==
    [a \in Address |-> <<getSignature(docs, h, a), verifyDocumentSignature(docs, h, a)>>]

\* C6: once a document is revoked, active stays false in every later state,
\* every signDocument on it by any caller fails with 'Document is not active',
\* and every Signature record reads back through getSignature and
\* verifyDocumentSignature as it did before the revocation.
C6_RevocationPermanent ==
    /\ [](\A h \in Hashes :
            /\ (lastTx.fn = "revokeDocument" /\ lastTx.documentHash = h
                    /\ lastTx.status = "ok") => (Exists(h) /\ ~documents[h].isActive)
            /\ (Exists(h) /\ ~documents[h].isActive) =>
                   /\ \A x \in Address, ref \in Refs :
                          LET r == signDocument(documents, now, x, h, ref) IN
                          r.status = ErrNotActive /\ r.documents = documents
                   /\ \A a \in Address :
                          /\ getSignature(documents, h, a).ok
                          /\ getSignature(documents, h, a).signed
                                 = documents[h].signatures[a].signed
                          /\ verifyDocumentSignature(documents, h, a).isValid
                                 = documents[h].signatures[a].signed
                          /\ ~verifyDocumentSignature(documents, h, a).documentActive)
    /\ [][\A h \in Hashes :
            /\ (Exists(h) /\ ~documents[h].isActive) =>
                   /\ ~documents'[h].isActive
                   /\ SignatureReads(documents', h) = SignatureReads(documents, h)
            /\ (documents[h].isActive /\ ~documents'[h].isActive) =>
                   /\ documents'[h].signatures = documents[h].signatures
                   /\ \A a \in Address :
                          getSignature(documents', h, a) = getSignature(documents, h, a)
                   /\ lastTx'.fn = "revokeDocument"]_vars

\* C6 witness: a signDocument by a declared signer who had not signed was
\* rejected as inactive on a revoked document that keeps an earlier signature
C6_Witness ==
    /\ lastTx.fn = "signDocument" /\ lastTx.status = ErrNotActive
    /\ lastTx.sender \in SignerSet(lastTx.documentHash)
    /\ ~documents[lastTx.documentHash].signatures[lastTx.sender].signed
    /\ \E a \in Address : verifyDocumentSignature(documents, lastTx.documentHash, a)
                              = [isValid |-> TRUE, signedAt |-> 1, documentActive |-> FALSE]
    /\ now > 1

\* C7: a declared signer's record is unsigned from creation, becomes signed
\* only by that signer's own successful signDocument, and from then on
\* getSignature returns the same (true, signedAt, metadataRef) in every later
\* state.
C7_SignedIsStable ==
    /\ [](\A h \in Hashes :
            (lastTx.fn = "signDocument" /\ lastTx.documentHash = h /\ lastTx.status = "ok")
                => getSignature(documents, h, lastTx.sender).signed)
    /\ [][\A h \in Hashes, s \in Address :
            /\ (~Exists(h) /\ documents'[h].timestamp > 0) =>
                   getSignature(documents', h, s)
                       = [ok |-> TRUE, error |-> "", signed |-> FALSE,
                          timestamp |-> 0, ipfsHash |-> ""]
            /\ (Exists(h) /\ ~getSignature(documents, h, s).signed
                    /\ getSignature(documents', h, s).signed) =>
                   /\ lastTx' = Receipt("signDocument", s, h, "ok", "DocumentSigned")
                   /\ getSignature(documents', h, s).timestamp = now
                   /\ s \in SignerSet(h)
            /\ (Exists(h) /\ getSignature(documents, h, s).signed) =>
                   getSignature(documents', h, s) = getSignature(documents, h, s)]_vars

\* C7 witness: a signed record with a metadata reference is still there after
\* the document was revoked in a later block and another signer was turned away
C7_Witness ==
    \E h \in Hashes, s \in Address :
        /\ getSignature(documents, h, s)
               = [ok |-> TRUE, error |-> "", signed |-> TRUE, timestamp |-> 1, ipfsHash |-> "Qm1"]
        /\ ~documents[h].isActive
        /\ now > 1
        /\ lastTx.fn = "signDocument" /\ lastTx.sender # s /\ lastTx.status # "ok"

C25_IdentityFixed ==
    [][\A h \in Hashes :
          Exists(h) =>
              /\ documents'[h].timestamp = documents[h].timestamp
              /\ documents'[h].documentHash = documents[h].documentHash
              /\ documents'[h].signers = documents[h].signers
              /\ getDocumentSigners(documents', h) = getDocumentSigners(documents, h)
              /\ documents'[h].isActive # documents[h].isActive =>
                     lastTx' = Receipt("revokeDocument", lastTx'.sender, h,
                                       "ok", "DocumentRevoked")
              /\ \A a \in Address :
                     documents'[h].signatures[a] # documents[h].signatures[a] =>
                         /\ lastTx' = Receipt("signDocument", a, h, "ok", "DocumentSigned")
                         /\ a \in SignerSet(h)]_vars

\* C25 witness: a document of two signers created in an earlier block has been
\* signed by its second signer and then revoked; a createDocument for the same
\* hash with another signer list was rejected
C25_Witness ==
    \E h \in Hashes :
        /\ lastTx = Receipt("createDocument", "W", h, ErrExists, "")
        /\ documents[h].signers = <<"A", "B">>
        /\ documents[h].timestamp < now
        /\ documents[h].signatures["B"].signed
        /\ ~documents[h].isActive

(* ----------------------- the service with its sign route --------------- *)

\* the documents the route is exercised on are created and revoked by B; A
\* also transacts with the contract directly, with its own key; the route
\* takes one request at a time, by any token identity in either letter case
NextFlow ==
    \/ Tick
    \/ \E h \in Hashes, l \in {<<"A">>, <<"A", "W">>, <<"W">>} : CreateDocumentTx("B", h, l)
    \/ \E h \in Hashes : RevokeDocumentTx("B", h)
    \/ \E h \in Hashes : SignDocumentTx("A", h, "")
    \/ \E u \in AddrStrings, h \in Hashes, m \in BOOLEAN : StartSign("r1", u, h, m)
    \/ \E r \in Requests, up \in BOOLEAN : Authorize(r, up)
    \/ \E r \in Requests, up \in BOOLEAN : CheckSigned(r, up)
    \/ \E r \in Requests, o \in UploadOutcomes : Upload(r, o)
    \/ \E r \in Requests, up \in BOOLEAN : SignOnLedger(r, up)
    \/ \E r \in Requests : RespondSigned(r)
    \/ \E r \in Requests : Finish(r)

SpecFlow == Init /\ [][NextFlow]_vars

(* ----------------------- two sign requests in flight ------------------- *)

\* the token identities of the concurrent requests are W and A, in lower case
\* as AuthService issues them
NextRace ==
    \/ Tick
    \/ \E h \in Hashes : CreateDocumentTx("B", h, <<"A", "W">>)
    \/ \E h \in Hashes : RevokeDocumentTx("B", h)
    \/ \E r \in Requests, u \in {"W", "A"}, h \in Hashes :
           StartSign(r, [id |-> u, form |-> "lower"], h, FALSE)
    \/ \E r \in Requests, up \in BOOLEAN : Authorize(r, up)
    \/ \E r \in Requests, up \in BOOLEAN : CheckSigned(r, up)
    \/ \E r \in Requests, up \in BOOLEAN : SignOnLedger(r, up)
    \/ \E r \in Requests : RespondSigned(r)

SpecRace == Init /\ [][NextRace]_vars

(* ======================= properties of the sign flow =================== *)

Signed(h, a) == documents[h].signatures[a].signed

\* C2 as stated: a sign request that reports success leaves signed = true on
\* the ledger for the pair (document, identity asserted by the token).
C2_Original ==
    \A r \in Requests :
        (requests[r].pc = "done" /\ requests[r].status = 200) =>
            Signed(requests[r].documentHash, requests[r].user.id)

\* C8: a request whose identity is not among the required signers (compared
\* without regard to letter case) is answered 403 by the authorization step,
\* which touches neither the ledger nor the metadata store: no signDocument
\* call, no upload, same ledger state and signed count; only identities among
\* the signers get past the step.
C8_UnauthorizedTouchesNothing ==
    /\ [](\A r \in Requests :
            LET q == requests[r] IN
            /\ (q.pc = "done" /\ q.status = 403) =>
                   /\ Exists(q.documentHash)
                   /\ q.user.id \notin SignerSet(q.documentHash)
                   /\ ~q.signCalled /\ ~q.uploadCalled
            /\ (q.pc \in {"checkSigned", "upload", "sign", "respond"}
                    \/ (q.pc = "done" /\ q.status \in {200, 409, 500})) =>
                   /\ Exists(q.documentHash)
                   /\ q.user.id \in SignerSet(q.documentHash))
    /\ [][\A r \in Requests :
            LET q == requests[r] IN
            (Authorize(r, TRUE) /\ Exists(q.documentHash)
                 /\ q.user.id \notin SignerSet(q.documentHash)) =>
                /\ requests'[r].pc = "done" /\ requests'[r].status = 403
                /\ ~requests'[r].signCalled /\ ~requests'[r].uploadCalled
                /\ documents' = documents /\ userDocuments' = userDocuments
                /\ lastTx' = lastTx
                /\ signedCount(documents', q.documentHash)
                       = signedCount(documents, q.documentHash)]_vars

\* C8 witness: a request that carried metadata, by an identity outside the
\* signers of an existing document, was answered 403 with nothing uploaded
C8_Witness ==
    \E r \in Requests :
        /\ requests[r].pc = "done" /\ requests[r].status = 403
        /\ requests[r].hasMetadata /\ ~requests[r].uploadCalled /\ ~requests[r].signCalled
        /\ Exists(requests[r].documentHash)
        /\ requests[r].user.id \notin SignerSet(requests[r].documentHash)
        /\ signedCount(documents, requests[r].documentHash) = 1

C10_Original ==
    \A r1 \in Requests, r2 \in Requests :
        LET q1 == requests[r1]
            q2 == requests[r2] IN
        (/\ r1 # r2
         /\ q1.documentHash = q2.documentHash /\ q1.user = q2.user
         /\ q1.user.id = serviceSigner
         /\ q1.sigRead = "unsigned" /\ q2.sigRead = "unsigned"
         /\ q1.pc = "done" /\ q1.status = 200
         /\ q2.pc = "done" /\ q2.signCalled /\ q2.error = ErrAlreadySigned)
            => q2.status = 409

\* C11: an upload that throws or returns an unsuccessful result leaves the
\* request on its way to the ledger with the empty reference; the ledger call
\* is made with the reference the upload step left, and whether the request
\* succeeds is decided by the ledger call alone; without metadata no upload is
\* attempted and the reference is empty.
C11_UploadFailureAbsorbed ==
    /\ [](\A r \in Requests :
            LET q == requests[r] IN
            /\ q.uploadCalled => q.hasMetadata
            /\ ~q.hasMetadata => q.ipfsHash = ""
            /\ q.ipfsHash # "" => (q.uploadCalled /\ q.ipfsHash = UploadedRef)
            /\ (q.hasMetadata /\ q.pc \in {"sign", "respond"}) => q.uploadCalled
            /\ q.pc = "upload" => (q.status = 0 /\ ~q.signCalled))
    /\ [][\A r \in Requests :
            LET q == requests[r]
                res == signDocument(documents, now, serviceSigner,
                                    q.documentHash, q.ipfsHash) IN
            /\ (Upload(r, "unsuccessful") \/ Upload(r, "throws")) =>
                   /\ requests'[r].pc = "sign" /\ requests'[r].status = 0
                   /\ requests'[r].ipfsHash = "" /\ requests'[r].uploadCalled
            /\ SignOnLedger(r, TRUE) =>
                   /\ requests'[r].signCalled
                   /\ requests'[r].pc = "respond" <=> res.status = "ok"
                   /\ res.status # "ok" =>
                          (requests'[r].status = 500 /\ requests'[r].error = res.status)
                   /\ res.status = "ok" =>
                          documents'[q.documentHash].signatures[serviceSigner].ipfsHash
                              = q.ipfsHash
            /\ (RespondSigned(r)) => requests'[r].status = 200]_vars

\* C11 witness: a request with metadata whose upload failed was answered 200,
\* and the signature it recorded carries the empty reference
C11_Witness ==
    \E r \in Requests :
        /\ requests[r].pc = "done" /\ requests[r].status = 200
        /\ requests[r].hasMetadata /\ requests[r].uploadCalled
        /\ requests[r].ipfsHash = ""
        /\ lastTx = Receipt("signDocument", serviceSigner, requests[r].documentHash,
                            "ok", "DocumentSigned")
        /\ documents[requests[r].documentHash].signatures[serviceSigner]
               = [signed |-> TRUE, timestamp |-> now, ipfsHash |-> ""]

(* ----------------------- how a sign flow ends -------------------------- *)

\* what a response of the sign route tells the user: the status code and the
\* top-level error message; every rejected signDocument call is answered 500
\* 'Failed to sign document on blockchain', the ledger's reason being free
\* text in the details field (kept in the request's error field)
ReportedReason(q) ==
    CASE q.status = 404 -> "document-missing"
      [] q.status = 403 -> "not-authorized"
      [] q.status = 409 -> "already-signed"
      [] q.status = 500 -> "failed-to-sign"
      [] OTHER -> "none"

\* C21 (as stated): a sign flow that does not end in success ends in
\* rejected(reason) with reason among not-authorized, already-signed,
\* document-missing and document-inactive; a flow that the ledger rejected
\* because the document is revoked is reported with the reason
\* document-inactive, and one on an unknown document with document-missing.
C21_Original ==
    \A r \in Requests :
        LET q == requests[r] IN
        (q.pc = "done" /\ q.status # 200) =>
            /\ ReportedReason(q) \in {"not-authorized", "already-signed",
                                      "document-missing", "document-inactive"}
            /\ (q.signCalled /\ q.error = ErrNotActive) =>
                   ReportedReason(q) = "document-inactive"
            /\ (q.signCalled /\ q.error = ErrNotExist) =>
                   ReportedReason(q) = "document-missing"

\* C22 (as stated): the sign flow answers NotFound (404) to its signer-list
\* read only when the document does not exist on the ledger; a read that did
\* not reach the ledger is reported as another kind.
C22_Original ==
    [][\A r \in Requests :
          (/\ requests[r].pc = "authorize"
           /\ requests'[r].pc = "done"
           /\ requests'[r].status = 404) =>
              ~Exists(requests[r].documentHash)]_vars

(* ======================= Ledger Client: all operations ================== *)

\* document contents handed to createDocument and estimateGasCosts
Buffers == {"b1"}

\* hashDocument: hex SHA-256 of the contents
hashDocument(b) == CASE b = "b1" -> "h1"

\* requiredSigners.map(addr => ethers.utils.getAddress(addr)) as the call encodes it
signerAddresses(requiredSigners) ==
    [i \in DOMAIN requiredSigners |-> addressOf(requiredSigners[i])]

\* createDocument of the service: the transaction is sent by the wallet
serviceCreateDocument(docs, udocs, t, up, b, requiredSigners) ==
    LET h == hashDocument(b)
        r == createDocument(docs, udocs, t, walletAddress, h,
                            signerAddresses(requiredSigners)) IN
    IF ~up THEN [success |-> FALSE, error |-> ErrNetwork, documentHash |-> "",
                 documents |-> docs, userDocuments |-> udocs, event |-> ""]
    ELSE IF r.status # "ok"
    THEN [success |-> FALSE, error |-> r.status, documentHash |-> "",
          documents |-> docs, userDocuments |-> udocs, event |-> ""]
    ELSE [success |-> TRUE, error |-> "", documentHash |-> h,
          documents |-> r.documents, userDocuments |-> r.userDocuments,
          event |-> r.event]

\* signDocument of the service: the transaction is sent by the wallet
serviceSignDocument(docs, t, up, h, signatureMetadata) ==
    LET r == signDocument(docs, t, serviceSigner, h, signatureMetadata) IN
    IF ~up THEN [success |-> FALSE, error |-> ErrNetwork, documents |-> docs, event |-> ""]
    ELSE IF r.status # "ok"
    THEN [success |-> FALSE, error |-> r.status, documents |-> docs, event |-> ""]
    ELSE [success |-> TRUE, error |-> "", documents |-> r.documents, event |-> r.event]

\* isDocumentFullySigned
isDocumentFullySigned(docs, up, h) ==
    LET r == isFullySigned(docs, h) IN
    IF ~up THEN [success |-> FALSE, error |-> ErrNetwork, isFullySigned |-> FALSE]
    ELSE IF ~r.ok THEN [success |-> FALSE, error |-> r.error, isFullySigned |-> FALSE]
    ELSE [success |-> TRUE, error |-> "", isFullySigned |-> r.value]

\* verifySignature
verifySignature(docs, up, h, signerAddress) ==
    LET r == verifyDocumentSignature(docs, h, addressOf(signerAddress)) IN
    IF ~up THEN [success |-> FALSE, error |-> ErrNetwork,
                 isValid |-> FALSE, signedAt |-> 0, documentActive |-> FALSE]
    ELSE [success |-> TRUE, error |-> "", isValid |-> r.isValid,
          signedAt |-> r.signedAt, documentActive |-> r.documentActive]

\* signatures.filter(sig => sig.signed).length counting each identity once
countSigned_distinct(signatures) ==
    Cardinality({signatures[i].address : i \in {j \in DOMAIN signatures : signatures[j].signed}})

\* signatures.filter(sig => sig.signed).length
countSigned(signatures) ==
    Cardinality({i \in DOMAIN signatures : signatures[i].signed})

\* Math.round(num / den) for num >= 0, den > 0
MathRound(num, den) == (2 * num + den) \div (2 * den)

\* getSigningProgress; ups[1] tells whether the signer-list read reaches the
\* ledger and ups[1 + i] whether the status read of signer i does
getSigningProgress(docs, ups, h) ==
    LET signersResult == getRequiredSigners(docs, ups[1], h)
        signers == signersResult.signers
        status(i) == getSignatureStatus(docs, ups[1 + i], h, signers[i])
        signatures == [i \in DOMAIN signers |->
                          [address |-> signers[i],
                           success |-> status(i).success,
                           error |-> status(i).error,
                           signed |-> status(i).signed,
                           timestamp |-> status(i).timestamp,
                           signatureMetadata |-> status(i).signatureMetadata]] IN
    IF ~signersResult.success THEN signersResult
    ELSE [success |-> TRUE,
          totalSigners |-> Len(signers),
          signedCount |-> countSigned(signatures),
          percentComplete |-> MathRound(countSigned(signatures) * 100, Len(signers)),
          signatures |-> signatures]

\* estimateGasCosts: ups[1], ups[2] and ups[3] tell whether the two estimates
\* and the gas price read reach the node; an estimate of a call that would
\* revert is an error; the catch block throws
estimateGasCosts(docs, udocs, t, ups, b, requiredSigners) ==
    LET h == hashDocument(b)
        c == createDocument(docs, udocs, t, walletAddress, h,
                            signerAddresses(requiredSigners))
        g == signDocument(docs, t, walletAddress, h, "") IN
    IF ~ups[1] THEN [raised |-> TRUE, error |-> ErrNetwork]
    ELSE IF c.status # "ok" THEN [raised |-> TRUE, error |-> c.status]
    ELSE IF ~ups[2] THEN [raised |-> TRUE, error |-> ErrNetwork]
    ELSE IF g.status # "ok" THEN [raised |-> TRUE, error |-> g.status]
    ELSE IF ~ups[3] THEN [raised |-> TRUE, error |-> ErrNetwork]
    ELSE [raised |-> FALSE, error |-> ""]

(* ----------------------- verify route: POST /:documentHash/verify ------ *)

\* verificationResults.filter(r => r.isValid).length
countValid(results) == Cardinality({i \in DOMAIN results : results[i].isValid})

\* the route giving up at the first signer whose verification read fails
verifyRoute_abortOnFailure(docs, ups, h) ==
    LET signersResult == getRequiredSigners(docs, ups[1], h)
        signers == signersResult.signers
        verification(i) == verifySignature(docs, ups[1 + i], h, signers[i])
        verificationResults ==
            [i \in DOMAIN signers |->
                [signer |-> signers[i],
                 isValid |-> verification(i).isValid,
                 signedAt |-> verification(i).signedAt,
                 documentActive |-> verification(i).documentActive,
                 error |-> verification(i).error]] IN
    IF ~signersResult.success
    THEN [status |-> 404, error |-> "Document not found"]
    ELSE IF \E i \in DOMAIN signers : ~verification(i).success
    THEN [status |-> 500, error |-> ErrNetwork]
    ELSE [status |-> 200,
          documentHash |-> h,
          isFullyValid |-> countValid(verificationResults) = Len(signers),
          validSignatures |-> countValid(verificationResults),
          totalSigners |-> Len(signers),
          verificationResults |-> verificationResults]

\* the response of the route; ups as in getSigningProgress
verifyRoute(docs, ups, h) ==
    LET signersResult == getRequiredSigners(docs, ups[1], h)
        signers == signersResult.signers
        verification(i) == verifySignature(docs, ups[1 + i], h, signers[i])
        verificationResults ==
            [i \in DOMAIN signers |->
                [signer |-> signers[i],
                 isValid |-> IF verification(i).success
                             THEN verification(i).isValid ELSE FALSE,
                 signedAt |-> IF verification(i).success
                              THEN verification(i).signedAt ELSE 0,
                 documentActive |-> IF verification(i).success
                                    THEN verification(i).documentActive ELSE FALSE,
                 error |-> verification(i).error]] IN
    IF ~signersResult.success
    THEN [status |-> 404, error |-> "Document not found"]
    ELSE [status |-> 200,
          documentHash |-> h,
          isFullyValid |-> countValid(verificationResults) = Len(signers),
          validSignatures |-> countValid(verificationResults),
          totalSigners |-> Len(signers),
          verificationResults |-> verificationResults]

(* ----------------------- calls on the Ledger Client -------------------- *)

\* one flag per ledger read of an operation: the signer list and one per signer
AllUp == [k \in 1..(MaxSigners + 2) |-> TRUE]

\* every read reaches the ledger, or all but one do
UpSeqs == {AllUp} \cup {[AllUp EXCEPT ![k] = FALSE] : k \in DOMAIN AllUp}

\* the signer lists callers hand to the client
ClientCreateLists == {<<[id |-> "A", form |-> "lower"], [id |-> "W", form |-> "checksum"]>>}

Called(op, h, ups, raised, result) ==
    [op |-> op, documentHash |-> h, ups |-> ups, raised |-> raised, result |-> result]

CallCreateDocument(up, b, requiredSigners) ==
    LET r == serviceCreateDocument(documents, userDocuments, now, up, b, requiredSigners) IN
    /\ documents' = r.documents
    /\ userDocuments' = r.userDocuments
    /\ lastTx' = IF up THEN Receipt("createDocument", walletAddress, hashDocument(b),
                                    IF r.success THEN "ok" ELSE r.error, r.event)
                 ELSE lastTx
    /\ lastCall' = Called("createDocument", hashDocument(b), <<up>>, FALSE,
                          [success |-> r.success, error |-> r.error,
                           documentHash |-> r.documentHash])
    /\ UNCHANGED <<now, requests, createReq, eventVars, serverVars>>

CallSignDocument(up, h, signatureMetadata) ==
    LET r == serviceSignDocument(documents, now, up, h, signatureMetadata) IN
    /\ documents' = r.documents
    /\ lastTx' = IF up THEN Receipt("signDocument", serviceSigner, h,
                                    IF r.success THEN "ok" ELSE r.error, r.event)
                 ELSE lastTx
    /\ lastCall' = Called("signDocument", h, <<up>>, FALSE,
                          [success |-> r.success, error |-> r.error])
    /\ UNCHANGED <<userDocuments, now, requests, createReq, eventVars, serverVars>>

\* a call that reads the ledger and returns
ReadCall(op, h, ups, raised, result) ==
    /\ lastCall' = Called(op, h, ups, raised, result)
    /\ UNCHANGED <<ledgerVars, requests, createReq, eventVars, serverVars>>

\* the ledger's transactions by other accounts, and every operation of the
\* client (and the verify route built on it) called with any arguments
NextClient ==
    \/ \E h \in Hashes, l \in SignerLists \cup {<<"A", "B", "W">>} :
           CreateDocumentTx("B", h, l)
    \/ \E s \in Address, h \in Hashes : SignDocumentTx(s, h, "")
    \/ \E h \in Hashes : RevokeDocumentTx("B", h)
    \/ \E up \in BOOLEAN, b \in Buffers, l \in ClientCreateLists :
           CallCreateDocument(up, b, l)
    \/ \E up \in BOOLEAN, h \in Hashes, ref \in Refs : CallSignDocument(up, h, ref)
    \/ \E up \in BOOLEAN, h \in Hashes :
           ReadCall("isDocumentFullySigned", h, <<up>>, FALSE,
                    isDocumentFullySigned(documents, up, h))
    \/ \E up \in BOOLEAN, h \in Hashes, a \in AddrStrings :
           ReadCall("getSignatureStatus", h, <<up>>, FALSE,
                    getSignatureStatus(documents, up, h, a))
    \/ \E up \in BOOLEAN, h \in Hashes, a \in AddrStrings :
           ReadCall("verifySignature", h, <<up>>, FALSE,
                    verifySignature(documents, up, h, a))
    \/ \E up \in BOOLEAN, h \in Hashes :
           ReadCall("getRequiredSigners", h, <<up>>, FALSE,
                    getRequiredSigners(documents, up, h))
    \/ \E ups \in UpSeqs, h \in Hashes :
           ReadCall("getSigningProgress", h, ups, FALSE,
                    getSigningProgress(documents, ups, h))
    \/ \E ups \in UpSeqs, b \in Buffers, l \in ClientCreateLists :
           LET r == estimateGasCosts(documents, userDocuments, now, ups, b, l) IN
           ReadCall("estimateGasCosts", hashDocument(b), ups, r.raised, r)
    \/ \E ups \in UpSeqs, h \in Hashes :
           ReadCall("verifyRoute", h, ups, FALSE, verifyRoute(documents, ups, h))

SpecClient == Init /\ [][NextClient]_vars

(* ======================= properties of the Ledger Client =============== *)

\* C12 (as stated): whatever operation of the Ledger Client is called, and
\* whether or not the ledger is reachable, the call returns a success payload
\* or a structured failure and never raises.
C12_Original == ~lastCall.raised

\* the number of entries of a document's signers sequence whose identity has signed
SignedEntries(h) ==
    Cardinality({i \in DOMAIN documents[h].signers :
                    documents[h].signatures[documents[h].signers[i]].signed})

\* C13: on an existing document, with the ledger reachable, getSigningProgress
\* returns totalSigners = length of the signers sequence, signedCount = number
\* of its entries that have signed, percentComplete = signedCount / totalSigners
\* * 100 rounded to the nearest integer, and one detail entry per signer in the
\* original order; for signers [A, B] the percentage is 0, 50 or 100 with zero,
\* one or two signatures, whoever signs first, and isDocumentFullySigned is true
\* exactly at 100.
C13_ProgressCounts ==
    \A h \in Hashes :
        Exists(h) =>
            LET p == getSigningProgress(documents, AllUp, h)
                signers == documents[h].signers
                n == Len(signers)
                k == SignedEntries(h) IN
            /\ p.success
            /\ p.totalSigners = n
            /\ p.signedCount = k
            /\ 2 * n * p.percentComplete <= 200 * k + n
            /\ 200 * k + n < 2 * n * (p.percentComplete + 1)
            /\ DOMAIN p.signatures = 1..n
            /\ \A i \in 1..n :
                   /\ addressOf(p.signatures[i].address) = signers[i]
                   /\ p.signatures[i].signed = documents[h].signatures[signers[i]].signed
            /\ signers = <<"A", "B">> =>
                   /\ p.percentComplete = CASE k = 0 -> 0 [] k = 1 -> 50 [] k = 2 -> 100
                   /\ isDocumentFullySigned(documents, TRUE, h).isFullySigned
                          <=> p.percentComplete = 100

\* C13 witness: the progress of a document with signers [A, B] was read after B,
\* the second signer, signed first: one of two, 50 percent
C13_Witness ==
    \E h \in Hashes :
        /\ lastCall = Called("getSigningProgress", h, AllUp, FALSE,
                             getSigningProgress(documents, AllUp, h))
        /\ documents[h].signers = <<"A", "B">>
        /\ documents[h].signatures["B"].signed
        /\ ~documents[h].signatures["A"].signed
        /\ lastCall.result.success
        /\ lastCall.result.signedCount = 1
        /\ lastCall.result.percentComplete = 50

\* C14: the verify route answers, for an existing document, totalSigners = the
\* number of declared signers and validSignatures = the number of per-signer
\* results with isValid, with isFullyValid true exactly when the two are equal;
\* when every read reaches the ledger that is exactly when every declared
\* signer has signed.
C14_VerifyAggregates ==
    \A h \in Hashes, ups \in UpSeqs :
        (Exists(h) /\ ups[1]) =>
            LET v == verifyRoute(documents, ups, h)
                signers == documents[h].signers
                n == Len(signers) IN
            /\ v.status = 200
            /\ v.totalSigners = n
            /\ DOMAIN v.verificationResults = 1..n
            /\ v.validSignatures =
                   Cardinality({i \in 1..n : v.verificationResults[i].isValid})
            /\ v.isFullyValid <=> v.validSignatures = v.totalSigners
            /\ ups = AllUp =>
                   /\ \A i \in 1..n : v.verificationResults[i].isValid
                                          = documents[h].signatures[signers[i]].signed
                   /\ v.validSignatures = SignedEntries(h)
                   /\ v.isFullyValid <=>
                          \A a \in SignerSet(h) : documents[h].signatures[a].signed

\* C14 witness: the route answered for a document that all its signers had
\* signed and that was then revoked: every signature valid, fully valid
C14_Witness ==
    \E h \in Hashes :
        /\ lastCall = Called("verifyRoute", h, AllUp, FALSE,
                             verifyRoute(documents, AllUp, h))
        /\ Len(documents[h].signers) = 2
        /\ ~documents[h].isActive
        /\ lastCall.result.status = 200
        /\ lastCall.result.validSignatures = 2
        /\ lastCall.result.isFullyValid

\* C23: when the verification read of a declared signer fails, the verify
\* route still answers 200; that signer's result is isValid = false,
\* signedAt = 0, documentActive = false with the error attached; every other
\* signer is verified and reported at its position in signers order; and
\* isFullyValid is false whether or not the failed signer has signed.
C23_PartialFailure ==
    \A h \in Hashes, ups \in UpSeqs :
        (Exists(h) /\ ups[1]) =>
            LET v == verifyRoute(documents, ups, h)
                signers == documents[h].signers
                n == Len(signers) IN
            /\ v.status = 200
            /\ DOMAIN v.verificationResults = 1..n
            /\ \A i \in 1..n :
                   LET res == v.verificationResults[i] IN
                   /\ addressOf(res.signer) = signers[i]
                   /\ ~ups[1 + i] =>
                          /\ ~res.isValid /\ res.signedAt = 0 /\ ~res.documentActive
                          /\ res.error = ErrNetwork
                   /\ ups[1 + i] =>
                          /\ res.isValid = documents[h].signatures[signers[i]].signed
                          /\ res.signedAt = documents[h].signatures[signers[i]].timestamp
                          /\ res.documentActive = documents[h].isActive
                          /\ res.error = ""
            /\ (\E i \in 1..n : ~ups[1 + i]) => ~v.isFullyValid

\* C23 witness: both signers of a document had signed, the read of the first
\* one failed: the route answered 200 with the first signer invalid with its
\* error, the second valid, and not fully valid
C23_Witness ==
    \E h \in Hashes :
        LET ups == [AllUp EXCEPT ![2] = FALSE] IN
        /\ lastCall = Called("verifyRoute", h, ups, FALSE, verifyRoute(documents, ups, h))
        /\ Len(documents[h].signers) = 2
        /\ documents[h].signers[1] # documents[h].signers[2]
        /\ \A a \in SignerSet(h) : documents[h].signatures[a].signed
        /\ lastCall.result.status = 200
        /\ ~lastCall.result.verificationResults[1].isValid
        /\ lastCall.result.verificationResults[1].error = ErrNetwork
        /\ lastCall.result.verificationResults[2].isValid
        /\ lastCall.result.validSignatures = 1
        /\ ~lastCall.result.isFullyValid

\* C29: for a document whose every declared signer has signed, active or
\* revoked, the verify route answers isFullyValid = true with every per-signer
\* result valid and carrying the document's active flag, and
\* verifyDocumentSignature reports isValid = true for each signer; revoking a
\* document changes neither the route's isFullyValid nor its validSignatures.
C29_ValidityIgnoresActive ==
    /\ [](\A h \in Hashes :
              (Exists(h) /\ \A a \in SignerSet(h) : documents[h].signatures[a].signed) =>
                  LET v == verifyRoute(documents, AllUp, h) IN
                  /\ v.status = 200
                  /\ v.isFullyValid
                  /\ \A i \in DOMAIN v.verificationResults :
                         /\ v.verificationResults[i].isValid
                         /\ v.verificationResults[i].documentActive = documents[h].isActive
                  /\ \A a \in SignerSet(h) :
                         /\ verifyDocumentSignature(documents, h, a).isValid
                         /\ verifyDocumentSignature(documents, h, a).documentActive
                                = documents[h].isActive)
    /\ [][\A h \in Hashes :
              (Exists(h) /\ documents[h].isActive /\ ~documents'[h].isActive) =>
                  /\ verifyRoute(documents', AllUp, h).status = 200
                  /\ verifyRoute(documents', AllUp, h).isFullyValid
                         = verifyRoute(documents, AllUp, h).isFullyValid
                  /\ verifyRoute(documents', AllUp, h).validSignatures
                         = verifyRoute(documents, AllUp, h).validSignatures]_vars

\* C29 witness: signers A and B both signed, the document was revoked in a
\* later transaction, and the route then answered fully valid with
\* documentActive = false in both results
C29_Witness ==
    \E h \in Hashes :
        /\ lastCall = Called("verifyRoute", h, AllUp, FALSE,
                             verifyRoute(documents, AllUp, h))
        /\ lastTx = Receipt("revokeDocument", "B", h, "ok", "DocumentRevoked")
        /\ documents[h].signers = <<"A", "B">>
        /\ lastCall.result.isFullyValid
        /\ \A i \in 1..2 :
               /\ lastCall.result.verificationResults[i].isValid
               /\ ~lastCall.result.verificationResults[i].documentActive

\* C20 (as stated): getSigningProgress returns a success only when the
\* signer-list read and every per-signer status read succeeded; a failed read
\* makes the whole operation a failure.
C20_Original ==
    (lastCall.op = "getSigningProgress" /\ lastCall.result.success) =>
        /\ lastCall.ups[1]
        /\ \A i \in DOMAIN lastCall.result.signatures : lastCall.ups[1 + i]

\* the external functions of the contract
LedgerOperations ==
    {"createDocument", "signDocument", "isFullySigned", "getSignature",
     "getDocumentSigners", "getUserDocuments", "revokeDocument",
     "verifyDocumentSignature"}

\* per operation of the Ledger Client, the contract functions it calls
\* (this.contract.<function> and this.contract.estimateGas.<function>); the
\* client's ABI declares no other function
ClientInvokes ==
    [op \in {"createDocument", "signDocument", "isDocumentFullySigned",
             "getSignatureStatus", "verifySignature", "getRequiredSigners",
             "getSigningProgress", "estimateGasCosts"} |->
        CASE op = "createDocument" -> {"createDocument"}
          [] op = "signDocument" -> {"signDocument"}
          [] op = "isDocumentFullySigned" -> {"isFullySigned"}
          [] op = "getSignatureStatus" -> {"getSignature"}
          [] op = "verifySignature" -> {"verifyDocumentSignature"}
          [] op = "getRequiredSigners" -> {"getDocumentSigners"}
          [] op = "getSigningProgress" -> {"getDocumentSigners", "getSignature"}
          [] op = "estimateGasCosts" -> {"createDocument", "signDocument"}]

\* C24 (as stated): every operation of the ledger is invoked by some
\* operation of the Ledger Client, and a call on the client reaches the ledger
\* only through the functions listed for it.
C24_Original ==
    /\ \A f \in LedgerOperations : \E op \in DOMAIN ClientInvokes : f \in ClientInvokes[op]
    /\ lastCall.op \in DOMAIN ClientInvokes \cup {"none", "verifyRoute"}

(* ======================= events and their subscribers =================== *)

\* a JavaScript value that is a string
JsString(str) == [isIndexed |-> FALSE, value |-> str, hash |-> ""]

\* the topic of an indexed string parameter: the keccak256 hash of the string
keccak256(str) == CASE str = "h1" -> "0xk1" [] str = "h2" -> "0xk2"

\* the value ethers decodes an indexed string parameter to: the topic is all it has
Indexed(topic) == [isIndexed |-> TRUE, value |-> "", hash |-> topic]

\* String(x) as a template literal computes it
toString(x) == IF x.isIndexed THEN "[object Object]" ELSE x.value

\* `document:${documentHash}`
DocRoom(x) == <<"document:", toString(x)>>

\* the log of an emit: event DocumentCreated/DocumentSigned(string indexed documentHash, address)
Log(kind, h, actor) == [type |-> kind, topic |-> keccak256(h), actor |-> actor]

\* the object the listener of listenForSignatureEvents hands to its callback
Notification(log) ==
    IF log.type = "DocumentSigned"
    THEN [type |-> "DocumentSigned", documentHash |-> Indexed(log.topic), signer |-> log.actor]
    ELSE [type |-> "DocumentCreated", documentHash |-> Indexed(log.topic), creator |-> log.actor]

\* signatureService.listenForSignatureEvents(callback) at start-up
Listen ==
    /\ ~listening
    /\ listening' = TRUE
    /\ UNCHANGED <<ledgerVars, requests, lastCall, createReq,
                   pending, delivered, connected, rooms, inbox, serverVars>>

\* a transaction whose log, if it emits one the service listens for, is queued
TxWithLog(fn, sender, h, status, event, docs, udocs) ==
    /\ documents' = docs
    /\ userDocuments' = udocs
    /\ lastTx' = Receipt(fn, sender, h, status, event)
    /\ pending' = IF listening /\ event \in EventKinds
                  THEN [pending EXCEPT ![event] = Append(@, Log(event, h, sender))]
                  ELSE pending
    /\ UNCHANGED <<now, requests, lastCall, createReq,
                   listening, delivered, connected, rooms, inbox, serverVars>>

EventCreateTx(sender, h, requiredSigners) ==
    LET r == createDocument(documents, userDocuments, now, sender, h, requiredSigners) IN
    TxWithLog("createDocument", sender, h, r.status, r.event, r.documents, r.userDocuments)

EventSignTx(sender, h, ref) ==
    LET r == signDocument(documents, now, sender, h, ref) IN
    TxWithLog("signDocument", sender, h, r.status, r.event, r.documents, userDocuments)

EventRevokeTx(sender, h) ==
    LET r == revokeDocument(documents, sender, h) IN
    TxWithLog("revokeDocument", sender, h, r.status, r.event, r.documents, userDocuments)

\* the messages the broadcast callback emits to client c for notification n
Broadcast(c, n) ==
    IF c \notin connected THEN {}
    ELSE (IF DocRoom(n.documentHash) \in rooms[c]
          THEN {[channel |-> "blockchain:event", data |-> n]} ELSE {})
         \cup {[channel |-> "blockchain:update", data |-> n]}

\* the listener of one kind fires for the oldest log of that kind
Deliver(kind) ==
    /\ pending[kind] # <<>>
    /\ LET n == Notification(Head(pending[kind])) IN
       /\ delivered' = Append(delivered, n)
       /\ inbox' = [c \in Clients |-> inbox[c] \cup Broadcast(c, n)]
    /\ pending' = [pending EXCEPT ![kind] = Tail(@)]
    /\ UNCHANGED <<ledgerVars, requests, lastCall, createReq, listening, connected, rooms, serverVars>>

\* io.on('connection')
Connect(c) ==
    /\ c \notin connected
    /\ connected' = connected \cup {c}
    /\ UNCHANGED <<ledgerVars, requests, lastCall, createReq,
                   listening, pending, delivered, rooms, inbox, serverVars>>

\* socket.on('subscribe')
Subscribe(c, id) ==
    /\ c \in connected
    /\ rooms' = [rooms EXCEPT ![c] = @ \cup {DocRoom(JsString(id))}]
    /\ UNCHANGED <<ledgerVars, requests, lastCall, createReq,
                   listening, pending, delivered, connected, inbox, serverVars>>

\* socket.on('unsubscribe')
Unsubscribe(c, id) ==
    /\ c \in connected
    /\ rooms' = [rooms EXCEPT ![c] = @ \ {DocRoom(JsString(id))}]
    /\ UNCHANGED <<ledgerVars, requests, lastCall, createReq,
                   listening, pending, delivered, connected, inbox, serverVars>>

\* socket.on('disconnect'): the socket leaves its rooms
Disconnect(c) ==
    /\ c \in connected
    /\ connected' = connected \ {c}
    /\ rooms' = [rooms EXCEPT ![c] = {}]
    /\ UNCHANGED <<ledgerVars, requests, lastCall, createReq,
                   listening, pending, delivered, inbox, serverVars>>

\* the service listening while accounts transact
NextEvents ==
    \/ Listen
    \/ \E h \in Hashes : EventCreateTx("B", h, <<"A", "B">>)
    \/ \E s \in Address, h \in Hashes : EventSignTx(s, h, "")
    \/ \E h \in Hashes : EventRevokeTx("B", h)
    \/ \E k \in EventKinds : Deliver(k)

SpecEvents == Init /\ [][NextEvents]_vars

\* clients connecting and subscribing to document ids while events are broadcast
NextPubSub ==
    \/ Listen
    \/ \E h \in Hashes : EventCreateTx("B", h, <<"A", "B">>)
    \/ \E h \in Hashes : EventSignTx("A", h, "")
    \/ \E k \in EventKinds : Deliver(k)
    \/ \E c \in Clients : Connect(c)
    \/ \E c \in Clients, id \in {"h1", "h2"} : Subscribe(c, id)
    \/ \E c \in Clients, id \in {"h1", "h2"} : Unsubscribe(c, id)
    \/ \E c \in Clients : Disconnect(c)

SpecPubSub == Init /\ [][NextPubSub]_vars

\* C16 (as stated): every notification the subscription delivers carries the
\* kind, the document id and the actor of a successful createDocument or
\* signDocument call.
C16_Original ==
    \A i \in DOMAIN delivered :
        \E h \in Hashes :
            /\ delivered[i].documentHash = JsString(h)
            /\ Exists(h)
            /\ delivered[i].type = "DocumentSigned" =>
                   documents[h].signatures[delivered[i].signer].signed
            /\ delivered[i].type = "DocumentCreated" =>
                   userDocuments[delivered[i].creator] # <<>>

\* C17 (as stated): when a notification about document D is delivered, the
\* clients that receive a message are exactly the connected clients
\* subscribed to D at that moment.
C17_Original ==
    [][\A k \in EventKinds :
          Deliver(k) =>
              LET D == CHOOSE h \in Hashes : keccak256(h) = Head(pending[k]).topic IN
              \A c \in Clients :
                  inbox'[c] # inbox[c]
                      <=> (c \in connected /\ DocRoom(JsString(D)) \in rooms[c])]_vars

(* ======================= authentication middleware ====================== *)

\* verifyJWT: the payload of a token that verifies carries the address the
\* token was issued for, in lower case (createJWT)
\* (tokA and tokW verify, an expired or forged token does not)
verifyJWT(token) ==
    CASE token = "tokA" -> [success |-> TRUE, error |-> "",
                            payload |-> [address |-> [id |-> "A", form |-> "lower"]]]
      [] token = "tokW" -> [success |-> TRUE, error |-> "",
                            payload |-> [address |-> [id |-> "W", form |-> "lower"]]]
      [] OTHER -> [success |-> FALSE, error |-> "Invalid token",
                   payload |-> [address |-> NoUser]]

\* a header that is present, given as its split(' ') parts
HeaderOf(parts) == [present |-> TRUE, parts |-> parts]

Headers ==
    {NoHeader, HeaderOf(<<"">>), HeaderOf(<<"Bearer">>), HeaderOf(<<"tokA">>),
     HeaderOf(<<"bearer", "tokA">>), HeaderOf(<<"Basic", "tokA">>),
     HeaderOf(<<"Bearer", "tokA", "x">>), HeaderOf(<<"Bearer", "", "tokA">>)}
    \cup {HeaderOf(<<"Bearer", t>>) : t \in {"tokA", "tokW", "tokExpired", "tokForged"}}

\* authMiddleware accepting any scheme word before the token
authMiddleware_anyScheme(header) ==
    IF ~header.present \/ header.parts = <<"">>
    THEN [status |-> 401, error |-> "Authorization header required", user |-> NoUser]
    ELSE IF Len(header.parts) # 2
    THEN [status |-> 401, error |-> "Invalid authorization format", user |-> NoUser]
    ELSE IF ~verifyJWT(header.parts[2]).success
    THEN [status |-> 401, error |-> "Invalid or expired token", user |-> NoUser]
    ELSE [status |-> 0, error |-> "", user |-> verifyJWT(header.parts[2]).payload.address]

\* authMiddleware: status 0 stands for next(), user for req.user.address
authMiddleware(header) ==
    IF ~header.present \/ header.parts = <<"">>
    THEN [status |-> 401, error |-> "Authorization header required", user |-> NoUser]
    ELSE IF Len(header.parts) # 2 \/ header.parts[1] # "Bearer"
    THEN [status |-> 401, error |-> "Invalid authorization format", user |-> NoUser]
    ELSE IF ~verifyJWT(header.parts[2]).success
    THEN [status |-> 401, error |-> "Invalid or expired token", user |-> NoUser]
    ELSE [status |-> 0, error |-> "", user |-> verifyJWT(header.parts[2]).payload.address]

\* isValidDocumentHash: a 64-character hex string
isValidDocumentHash(h) == h \in Hashes

\* validateSignature: h is the :documentHash path parameter, meta tells whether
\* req.body.signatureMetadata is absent ("undefined"), an object within the
\* limits, a value that is no object ("string"), or an object of more than
\* 10000 characters or with a field of the wrong type ("invalid"); status 0
\* stands for next()
validateSignature(h, meta) ==
    IF ~isValidDocumentHash(h) \/ meta \in {"string", "invalid"}
    THEN [status |-> 400, error |-> "Validation failed"]
    ELSE [status |-> 0, error |-> ""]

\* a sign request arrives: authMiddleware, validateSignature, then the handler
SignRequest(r, header, h, meta) ==
    LET a == authMiddleware(header)
        v == validateSignature(h, meta) IN
    IF a.status # 0
    THEN /\ requests[r].pc = "idle"
         /\ Respond(r, a.status, a.error)
         /\ UNCHANGED <<ledgerVars, otherVars>>
    ELSE IF v.status # 0
    THEN /\ requests[r].pc = "idle"
         /\ Respond(r, v.status, v.error)
         /\ UNCHANGED <<ledgerVars, otherVars>>
    ELSE StartSign(r, a.user, h, meta = "object")

(* ======================= validateDocumentCreation ======================= *)

MaxSignersAllowed == 50
MaxTitleLength == 200
MaxDescriptionLength == 1000
MaxFileSize == 52428800
MaxFilenameLength == 255

\* an entry of the parsed signers array: a number, or a string that is an
\* address in checksum case, in lower case, in lower case without the 0x
\* prefix ("bare"), or mixed case with a wrong checksum ("badsum")
\* ethers.utils.isAddress behind isValidAddress
isValidAddress(x) == x.form \in {"checksum", "lower", "bare"}

\* indices of the entries the loop reports as invalid
invalidIndices(items) ==
    {i \in DOMAIN items : items[i].form = "number" \/ ~isValidAddress(items[i])}

\* the duplicate scan comparing the strings as written
duplicateIndices_caseSensitive(items) ==
    {i \in DOMAIN items \ invalidIndices(items) :
        \E j \in DOMAIN items \ invalidIndices(items) : j < i /\ items[j] = items[i]}

\* indices of the entries whose normalizedAddress was already seen
duplicateIndices(items) ==
    {i \in DOMAIN items \ invalidIndices(items) :
        \E j \in DOMAIN items \ invalidIndices(items) :
            j < i /\ toLowerCase(items[j]) = toLowerCase(items[i])}

\* the errors of the signers field; json tells what JSON.parse makes of the text
signersErrors(signers) ==
    IF signers.type = "undefined" \/ signers.json = "empty"
    THEN {"Signers array is required"}
    ELSE IF signers.json = "invalid" THEN {"Signers must be valid JSON array"}
    ELSE IF signers.json # "array" THEN {"Signers must be an array"}
    ELSE IF Len(signers.items) = 0 THEN {"At least one signer is required"}
    ELSE IF Len(signers.items) > MaxSignersAllowed THEN {"Maximum 50 signers allowed"}
    ELSE (IF invalidIndices(signers.items) # {}
          THEN {"Invalid signer addresses"} ELSE {})
         \cup (IF duplicateIndices(signers.items) # {}
               THEN {"Duplicate signers found"} ELSE {})

\* the errors of an optional text field (title, description)
textErrors(v, max, notString, tooLong) ==
    IF v.type = "undefined" THEN {}
    ELSE IF v.type # "string" THEN {notString}
    ELSE IF v.length > max THEN {tooLong}
    ELSE {}

\* the errors of expiresAt; time 0 stands for a text new Date() cannot parse
expiresErrors(v, clock) ==
    IF v.type = "undefined" THEN {}
    ELSE IF v.type # "string" THEN {"Expiration date must be a string"}
    ELSE IF v.time = 0 THEN {"Invalid expiration date format"}
    ELSE IF v.time <= clock THEN {"Expiration date must be in the future"}
    ELSE {}

\* the errors of req.file
fileErrors(file) ==
    IF file.type = "undefined" THEN {"Document file is required"}
    ELSE (IF file.size > MaxFileSize THEN {"File size must be 50MB or less"} ELSE {})
         \cup (IF file.nameLength > MaxFilenameLength
               THEN {"Filename must be 255 characters or less"} ELSE {})

\* validateDocumentCreation: status 0 stands for next()
validateDocumentCreation(body, clock) ==
    LET errors ==
            signersErrors(body.signers)
            \cup textErrors(body.title, MaxTitleLength, "Title must be a string",
                            "Title must be 200 characters or less")
            \cup textErrors(body.description, MaxDescriptionLength,
                            "Description must be a string",
                            "Description must be 1000 characters or less")
            \cup expiresErrors(body.expiresAt, clock)
            \cup fileErrors(body.file) IN
    IF errors # {} THEN [status |-> 400, error |-> "Validation failed", errors |-> errors]
    ELSE [status |-> 0, error |-> "", errors |-> {}]

(* ----------------------- create requests ------------------------------ *)

\* the longest signer list enumerated in full
MaxItems == 2

\* n distinct lower-case addresses
Padded(n) == [i \in 1..n |-> [id |-> ToString(i), form |-> "lower"]]

\* the signers fields: absent, empty, no JSON, JSON that is no array, every
\* array of up to MaxItems entries, and arrays around the ceiling: one entry
\* under, at, one over, and at the ceiling with the last entry repeating the
\* first in another letter case
ArrayOf(items) == [type |-> "string", json |-> "array", items |-> items]

TextValues(max) ==
    {UndefinedText, [type |-> "string", length |-> max],
     [type |-> "string", length |-> max + 1], [type |-> "object", length |-> 0]}

\* a request that passes: two signers, a file, none of the optional fields
GoodBody ==
    [signers |-> ArrayOf(<<[id |-> "A", form |-> "lower"], [id |-> "W", form |-> "checksum"]>>),
     title |-> UndefinedText, description |-> UndefinedText,
     expiresAt |-> UndefinedDate,
     file |-> [type |-> "file", size |-> MaxFileSize, nameLength |-> MaxFilenameLength]]

\* the bodies of the create requests: a passing request with one field varied
Bodies ==
    {[GoodBody EXCEPT !.signers = x] :
         x \in
             {UndefinedSigners,
              [type |-> "string", json |-> "empty", items |-> <<>>],
              [type |-> "string", json |-> "invalid", items |-> <<>>],
              [type |-> "string", json |-> "object", items |-> <<>>]}
             \cup {ArrayOf(l) :
                      l \in UNION {[1..n ->
                                      [id : SignerPool,
                                       form : {"checksum", "lower", "bare", "badsum", "number"}]]
                                      : n \in 0..MaxItems}}
             \cup {ArrayOf(Padded(MaxSignersAllowed - 1)), ArrayOf(Padded(MaxSignersAllowed)),
                   ArrayOf(Padded(MaxSignersAllowed + 1)),
                   ArrayOf([Padded(MaxSignersAllowed) EXCEPT ![MaxSignersAllowed] =
                                                                [id |-> "1", form |-> "checksum"]])}}
    \cup {[GoodBody EXCEPT !.title = x] : x \in TextValues(MaxTitleLength)}
    \cup {[GoodBody EXCEPT !.description = x] : x \in TextValues(MaxDescriptionLength)}
    \cup {[GoodBody EXCEPT !.expiresAt = x] :
             x \in {UndefinedDate, [type |-> "object", time |-> 0]}
                     \cup {[type |-> "string", time |-> t] : t \in 0..(MaxTime + 1)}}
    \cup {[GoodBody EXCEPT !.file = x] :
             x \in {UndefinedFile,
                    [type |-> "file", size |-> MaxFileSize + 1,
                     nameLength |-> MaxFilenameLength],
                    [type |-> "file", size |-> MaxFileSize,
                     nameLength |-> MaxFilenameLength + 1]}}

\* the create route: authMiddleware first
CreateArrive(header, body) ==
    LET a == authMiddleware(header) IN
    /\ createReq.pc = "idle"
    /\ createReq' = IF a.status # 0
                    THEN [IdleCreate EXCEPT !.pc = "done", !.header = header,
                                            !.body = body, !.status = a.status,
                                            !.error = a.error]
                    ELSE [IdleCreate EXCEPT !.pc = "validate", !.header = header,
                                            !.body = body, !.user = a.user]
    /\ UNCHANGED <<ledgerVars, requests, lastCall, eventVars, serverVars>>

\* then validateDocumentCreation
CreateValidate ==
    LET v == validateDocumentCreation(createReq.body, now) IN
    /\ createReq.pc = "validate"
    /\ createReq' = IF v.status # 0
                    THEN [createReq EXCEPT !.pc = "done", !.validated = TRUE,
                                           !.status = v.status, !.error = v.error]
                    ELSE [createReq EXCEPT !.pc = "create", !.validated = TRUE]
    /\ UNCHANGED <<ledgerVars, requests, lastCall, eventVars, serverVars>>

\* then the handler: hash the file and create the document through the client
CreateOnLedger(up, b) ==
    LET r == serviceCreateDocument(documents, userDocuments, now, up, b,
                                   createReq.body.signers.items) IN
    /\ createReq.pc = "create"
    /\ documents' = r.documents
    /\ userDocuments' = r.userDocuments
    /\ lastTx' = IF up THEN Receipt("createDocument", walletAddress, hashDocument(b),
                                    IF r.success THEN "ok" ELSE r.error, r.event)
                 ELSE lastTx
    /\ createReq' = [createReq EXCEPT !.pc = "done", !.createCalled = TRUE,
                                      !.status = IF r.success THEN 201
                                                 ELSE IF r.error = ErrExists THEN 409
                                                 ELSE 500,
                                      !.error = r.error]
    /\ UNCHANGED <<now, requests, lastCall, eventVars, serverVars>>

\* the response was sent
CreateFinish ==
    /\ createReq.pc = "done"
    /\ createReq' = IdleCreate
    /\ UNCHANGED <<ledgerVars, requests, lastCall, eventVars, serverVars>>

(* ----------------------- the routes behind their middleware ----------- *)

\* create requests of the authentication runs: one that validates, one that does not
AuthBodies == {GoodBody, [GoodBody EXCEPT !.signers = UndefinedSigners]}

\* the sign route and the create route behind authMiddleware, the server
\* taking one request at a time
NextAuth ==
    \/ Tick
    \/ \E h \in Hashes, l \in {<<"A">>, <<"A", "W">>, <<"W">>} : CreateDocumentTx("B", h, l)
    \/ \E h \in Hashes : RevokeDocumentTx("B", h)
    \/ /\ createReq.pc = "idle"
       /\ \E hdr \in Headers, h \in Hashes \cup {"nothex"},
             m \in {"undefined", "object", "string", "invalid"} : SignRequest("r1", hdr, h, m)
    \/ \E r \in Requests, up \in BOOLEAN : Authorize(r, up)
    \/ \E r \in Requests, up \in BOOLEAN : CheckSigned(r, up)
    \/ \E r \in Requests, o \in UploadOutcomes : Upload(r, o)
    \/ \E r \in Requests, up \in BOOLEAN : SignOnLedger(r, up)
    \/ \E r \in Requests : RespondSigned(r)
    \/ \E r \in Requests : Finish(r)
    \/ /\ requests["r1"].pc = "idle"
       /\ \E hdr \in Headers, body \in AuthBodies : CreateArrive(hdr, body)
    \/ CreateValidate
    \/ \E up \in BOOLEAN, b \in Buffers : CreateOnLedger(up, b)
    \/ CreateFinish

SpecAuth == Init /\ [][NextAuth]_vars

\* create requests with and without a token; a document with the same hash
\* may have been created directly before
NextCreate ==
    \/ \E h \in Hashes : CreateDocumentTx("B", h, <<"A">>)
    \/ \E hdr \in {NoHeader, HeaderOf(<<"Bearer", "tokA">>)}, body \in Bodies :
           CreateArrive(hdr, body)
    \/ CreateValidate
    \/ \E up \in BOOLEAN, b \in Buffers : CreateOnLedger(up, b)
    \/ CreateFinish

SpecCreate == Init /\ [][NextCreate]_vars

(* ======================= properties of the middleware ================== *)

\* a header of exactly the form 'Bearer <token>' whose token verifies
HeaderOk(header) ==
    /\ header.present
    /\ Len(header.parts) = 2
    /\ header.parts[1] = "Bearer"
    /\ header.parts[2] \in {"tokA", "tokW"}

\* the identity a verifying token asserts
TokenIdentity(token) == CASE token = "tokA" -> "A" [] token = "tokW" -> "W"

SignersOk(signers) ==
    /\ signers.type = "string" /\ signers.json = "array"
    /\ Len(signers.items) \in 1..MaxSignersAllowed
    /\ \A i \in DOMAIN signers.items : signers.items[i].form \in {"checksum", "lower", "bare"}
    /\ \A i, j \in DOMAIN signers.items :
           i # j => ~(/\ signers.items[i].id = signers.items[j].id
                      /\ (signers.items[i].form = "bare")
                             = (signers.items[j].form = "bare"))

\* a file is attached within the limits
FileOk(file) ==
    file.type = "file" /\ file.size <= MaxFileSize /\ file.nameLength <= MaxFilenameLength

\* each optional field is absent or valid
OptionalOk(body, clock) ==
    /\ body.title.type = "undefined"
           \/ (body.title.type = "string" /\ body.title.length <= MaxTitleLength)
    /\ body.description.type = "undefined"
           \/ (body.description.type = "string"
                   /\ body.description.length <= MaxDescriptionLength)
    /\ body.expiresAt.type = "undefined"
           \/ (body.expiresAt.type = "string" /\ body.expiresAt.time > clock)

MaxClock == 3

\* the options of the limiter, in units of the clock: the length of the window
\* and the number of requests it admits
windowMs == 2
maxRequests == 2

\* requests.filter(timestamp => timestamp > windowStart)
filterWindow(timestamps, windowStart) ==
    SelectSeq(timestamps, LAMBDA timestamp : timestamp > windowStart)

\* Map.prototype.set
MapSet(map, key, value) ==
    [k \in DOMAIN map \cup {key} |-> IF k = key THEN value ELSE map[k]]

\* the limiter admitting while the count is not above maxRequests
rateLimitMiddleware_offByOne(store, t, identifier) ==
    LET windowStart == t - windowMs
        cleaned == IF identifier \in DOMAIN store
                   THEN MapSet(store, identifier, filterWindow(store[identifier], windowStart))
                   ELSE store
        currentRequests == IF identifier \in DOMAIN cleaned THEN cleaned[identifier] ELSE <<>> IN
    IF Len(currentRequests) > maxRequests
    THEN [status |-> 429, store |-> cleaned]
    ELSE [status |-> 0, store |-> MapSet(cleaned, identifier, Append(currentRequests, t))]

\* the middleware rateLimitMiddleware(options) returns, run at time t for a
\* request of identifier: the answer (429, or 0 for next()) and the store
\* afterwards; it runs to completion without suspending
rateLimitMiddleware(store, t, identifier) ==
    LET windowStart == t - windowMs
        cleaned == IF identifier \in DOMAIN store
                   THEN MapSet(store, identifier, filterWindow(store[identifier], windowStart))
                   ELSE store
        currentRequests == IF identifier \in DOMAIN cleaned THEN cleaned[identifier] ELSE <<>> IN
    IF Len(currentRequests) >= maxRequests
    THEN [status |-> 429, store |-> cleaned]
    ELSE [status |-> 0, store |-> MapSet(cleaned, identifier, Append(currentRequests, t))]

\* time passes on the server, up to max
ClockTick(max) ==
    /\ wallClock < max
    /\ wallClock' = wallClock + 1
    /\ UNCHANGED <<ledgerVars, requests, lastCall, createReq, eventVars,
                   rateLimitStore, admitted, lastRate,
                   nonces, issued, held, lastAuth, succeeded, tally>>

\* a request of identifier reaches the limiter
RateRequest(identifier) ==
    LET r == rateLimitMiddleware(rateLimitStore, wallClock, identifier) IN
    /\ rateLimitStore' = r.store
    /\ lastRate' = [identifier |-> identifier, status |-> r.status]
    /\ admitted' = IF r.status = 0
                   THEN [admitted EXCEPT ![identifier] = Append(@, wallClock)]
                   ELSE admitted
    /\ UNCHANGED <<ledgerVars, requests, lastCall, createReq, eventVars, wallClock,
                   nonces, issued, held, lastAuth, succeeded, tally>>

NextRate == ClockTick(MaxClock) \/ \E identifier \in Identifiers : RateRequest(identifier)

SpecRate == Init /\ [][NextRate]_vars

\* the number of requests of identifier admitted in (t - windowMs, t]
AdmittedIn(identifier, t) ==
    Cardinality({i \in DOMAIN admitted[identifier] :
                    t - windowMs < admitted[identifier][i] /\ admitted[identifier][i] <= t})

\* C26: for every identifier and every instant t, at most maxRequests requests
\* of the identifier were admitted in (t - windowMs, t]; a request answered 429
\* adds no timestamp to the store and is not among the admitted; and a request
\* of one identifier leaves the recorded requests of every other identifier as
\* they were.
C26_RateLimit ==
    /\ [](\A identifier \in Identifiers, t \in 0..MaxClock :
              AdmittedIn(identifier, t) <= maxRequests)
    /\ [][\A identifier \in Identifiers :
              RateRequest(identifier) =>
                  /\ lastRate'.status = 429 =>
                         /\ admitted' = admitted
                         /\ rateLimitStore'[identifier]
                                = filterWindow(rateLimitStore[identifier], wallClock - windowMs)
                         /\ Len(rateLimitStore'[identifier]) <= Len(rateLimitStore[identifier])
                  /\ lastRate'.status = 0 =>
                         /\ admitted'[identifier] = Append(admitted[identifier], wallClock)
                         /\ AdmittedIn(identifier, wallClock) < maxRequests
                  /\ \A other \in Identifiers \ {identifier} :
                         /\ admitted'[other] = admitted[other]
                         /\ (other \in DOMAIN rateLimitStore') = (other \in DOMAIN rateLimitStore)
                         /\ other \in DOMAIN rateLimitStore =>
                                rateLimitStore'[other] = rateLimitStore[other]]_vars

\* C26 witness: an identifier whose earlier requests have left the window was
\* admitted maxRequests times in the current window and then answered 429,
\* while another identifier has a request recorded
C26_Witness ==
    \E identifier \in Identifiers, other \in Identifiers :
        /\ other # identifier
        /\ lastRate = [identifier |-> identifier, status |-> 429]
        /\ AdmittedIn(identifier, wallClock) = maxRequests
        /\ Len(admitted[identifier]) > maxRequests
        /\ Len(rateLimitStore[identifier]) = maxRequests
        /\ other \in DOMAIN rateLimitStore /\ Len(rateLimitStore[other]) = 1

(* ======================= wallet authentication (AuthService) =========== *)

\* generateNonce is called at most MaxNonces times
MaxNonces == 2

\* the time a nonce stays valid (5 minutes), in units of the clock
NonceLifetime == 2

\* the address strings clients authenticate as
WalletAddrs == {[id |-> "A", form |-> "checksum"], [id |-> "A", form |-> "lower"]}

\* generateNonce: fresh stands for crypto.randomBytes(32), a value that no
\* earlier call returned
generateNonce(map, t, fresh, address) ==
    MapSet(map, toLowerCase(address), [nonce |-> fresh, expiresAt |-> t + NonceLifetime])

\* createAuthMessage evaluated at time t: the text carries the address as
\* given, the nonce and new Date().toISOString()
createAuthMessage(address, nonce, t) ==
    [address |-> address, nonce |-> nonce, timestamp |-> t]

\* ethers.utils.verifyMessage: the signer's address when the signature was
\* made over this very text, and otherwise the address of an unrelated key
verifyMessage(message, signature) ==
    IF signature.message = message
    THEN checksumString(signature.key)
    ELSE checksumString("unrelated")

\* createJWT: the token whose payload is the address in lower case
createJWT(address) == CASE address.id = "A" -> "tokA" [] address.id = "W" -> "tokW"

\* Map.prototype.delete
MapDelete(map, key) == [k \in DOMAIN map \ {key} |-> map[k]]

\* authenticateWithWallet leaving the used nonce in the map
authenticateWithWallet_keepNonce(map, t, address, signature, nonce) ==
    LET addressLower == toLowerCase(address)
        message == createAuthMessage(address, nonce, t)
        recoveredAddress == verifyMessage(message, signature) IN
    IF addressLower \notin DOMAIN map
    THEN [success |-> FALSE, error |-> "Invalid or expired nonce", token |-> "", nonces |-> map]
    ELSE IF t > map[addressLower].expiresAt
    THEN [success |-> FALSE, error |-> "Nonce expired", token |-> "",
          nonces |-> MapDelete(map, addressLower)]
    ELSE IF map[addressLower].nonce # nonce
    THEN [success |-> FALSE, error |-> "Invalid nonce", token |-> "", nonces |-> map]
    ELSE IF toLowerCase(recoveredAddress) # addressLower
    THEN [success |-> FALSE, error |-> "Invalid signature", token |-> "", nonces |-> map]
    ELSE [success |-> TRUE, error |-> "", token |-> createJWT(address), nonces |-> map]

\* authenticateWithWallet called at time t: the result and the nonces afterwards
authenticateWithWallet(map, t, address, signature, nonce) ==
    LET addressLower == toLowerCase(address)
        message == createAuthMessage(address, nonce, t)
        recoveredAddress == verifyMessage(message, signature) IN
    IF addressLower \notin DOMAIN map
    THEN [success |-> FALSE, error |-> "Invalid or expired nonce", token |-> "", nonces |-> map]
    ELSE IF t > map[addressLower].expiresAt
    THEN [success |-> FALSE, error |-> "Nonce expired", token |-> "",
          nonces |-> MapDelete(map, addressLower)]
    ELSE IF map[addressLower].nonce # nonce
    THEN [success |-> FALSE, error |-> "Invalid nonce", token |-> "", nonces |-> map]
    ELSE IF toLowerCase(recoveredAddress) # addressLower
    THEN [success |-> FALSE, error |-> "Invalid signature", token |-> "", nonces |-> map]
    ELSE [success |-> TRUE, error |-> "", token |-> createJWT(address),
          nonces |-> MapDelete(map, addressLower)]

\* a client asks for a nonce for an address
GenerateNonce(address) ==
    /\ Len(issued) < MaxNonces
    /\ nonces' = generateNonce(nonces, wallClock, Len(issued) + 1, address)
    /\ issued' = Append(issued, [key |-> toLowerCase(address),
                                 expiresAt |-> wallClock + NonceLifetime])
    /\ UNCHANGED <<ledgerVars, requests, lastCall, createReq, eventVars, wallClock,
                   rateLimitStore, admitted, lastRate, held, lastAuth, succeeded, tally>>

\* a client signs, with the key of some account, the authentication message
\* made now for an address and a nonce that was issued
ClientSign(key, address, nonce) ==
    /\ nonce \in DOMAIN issued
    /\ held' = [key |-> key, message |-> createAuthMessage(address, nonce, wallClock)]
    /\ UNCHANGED <<ledgerVars, requests, lastCall, createReq, eventVars, wallClock,
                   rateLimitStore, admitted, lastRate, nonces, issued, lastAuth, succeeded, tally>>

\* a client calls authenticateWithWallet with the signature it holds
Authenticate(address, nonce) ==
    LET r == authenticateWithWallet(nonces, wallClock, address, held, nonce) IN
    /\ held # NoSignature
    /\ nonce \in DOMAIN issued
    /\ nonces' = r.nonces
    /\ lastAuth' = [replayed |-> [address |-> address, signature |-> held,
                                   nonce |-> nonce] \in succeeded,
                    success |-> r.success, error |-> r.error, token |-> r.token]
    /\ succeeded' = IF r.success
                    THEN succeeded \cup {[address |-> address, signature |-> held,
                                          nonce |-> nonce]}
                    ELSE succeeded
    /\ UNCHANGED <<ledgerVars, requests, lastCall, createReq, eventVars, wallClock,
                   rateLimitStore, admitted, lastRate, issued, held, tally>>

\* the clock runs until the first nonces have expired; messages are signed
\* with the key of A or with the key of another account
NextWallet ==
    \/ ClockTick(NonceLifetime + 1)
    \/ \E address \in WalletAddrs : GenerateNonce(address)
    \/ \E key \in {"A", "W"}, address \in WalletAddrs, nonce \in 1..MaxNonces :
           ClientSign(key, address, nonce)
    \/ \E address \in WalletAddrs, nonce \in 1..MaxNonces : Authenticate(address, nonce)

SpecWallet == Init /\ [][NextWallet]_vars

\* C27: a triple (address, signature, nonce) that has authenticated never
\* authenticates again, whether or not a new nonce was generated since; a
\* nonce presented after its expiry never authenticates; a nonce issued for an
\* address before the address's latest nonce never authenticates; and a
\* successful authentication leaves no nonce stored for the address.
C27_NonceSingleUse ==
    [][\A address \in WalletAddrs, nonce \in 1..MaxNonces :
          Authenticate(address, nonce) =>
              /\ [address |-> address, signature |-> held, nonce |-> nonce] \in succeeded
                     => ~lastAuth'.success
              /\ wallClock > issued[nonce].expiresAt => ~lastAuth'.success
              /\ (\E later \in DOMAIN issued :
                      later > nonce /\ issued[later].key = toLowerCase(address))
                     => ~lastAuth'.success
              /\ lastAuth'.success =>
                     /\ issued[nonce].key = toLowerCase(address)
                     /\ toLowerCase(address) \notin DOMAIN nonces'
                     /\ verifyJWT(lastAuth'.token).payload.address = toLowerCase(address)]_vars

\* C27 witness: the triple that had just authenticated was presented again
\* and was refused
C27_Witness ==
    /\ lastAuth.replayed
    /\ ~lastAuth.success
    /\ lastAuth.error = "Invalid or expired nonce"
    /\ held.key = "A" /\ held.message.timestamp = wallClock
    /\ nonces = EmptyMap

\* C28 (as stated): a client that signs, with the key of its address, the
\* message createAuthMessage made for its address and its current nonce, and
\* authenticates before the nonce expires, receives success with a token.
C28_Original ==
    [][\A address \in WalletAddrs, nonce \in 1..MaxNonces :
          (/\ Authenticate(address, nonce)
           /\ held.key = address.id
           /\ held.message.address = address
           /\ held.message.nonce = nonce
           /\ toLowerCase(address) \in DOMAIN nonces
           /\ nonces[toLowerCase(address)].nonce = nonce
           /\ wallClock <= nonces[toLowerCase(address)].expiresAt) =>
              (lastAuth'.success /\ lastAuth'.token # "")]_vars

(* ======================= progress percentage over all list lengths ===== *)

\* a signer list without the ceiling of the validator
admitsSignerCount_noCeiling(n) == n > 0

\* the lengths of signer list a document of the create flow can have:
\* validateDocumentCreation rejects length 0 and length > 50, and
\* createDocument requires length > 0
admitsSignerCount(n) == n > 0 /\ ~(n > MaxSignersAllowed)

\* Math.round((signedCount / signers.length) * 100) in double arithmetic: the
\* nearest integer, and either neighbour when the exact value lies half way
\* between two integers, where the rounding of the quotient decides
PercentResults(count, total) ==
    IF (200 * count) % total = 0 /\ ((200 * count) \div total) % 2 = 1
    THEN {(100 * count) \div total, (100 * count) \div total + 1}
    ELSE {MathRound(100 * count, total)}

\* a document with n signers is created and its progress is read
TallyCreate(n) ==
    /\ tally = NoTally /\ lastTx = NoTx
    /\ admitsSignerCount(n)
    /\ \E p \in PercentResults(0, n) :
           tally' = [totalSigners |-> n, signedCount |-> 0, percentComplete |-> p]
    /\ UNCHANGED <<ledgerVars, requests, lastCall, createReq, eventVars, wallClock,
                   rateLimitStore, admitted, lastRate, nonces, issued, held,
                   lastAuth, succeeded>>

\* one more of the document's signers signs and its progress is read
TallySign ==
    /\ tally.signedCount < tally.totalSigners
    /\ \E p \in PercentResults(tally.signedCount + 1, tally.totalSigners) :
           tally' = [tally EXCEPT !.signedCount = @ + 1, !.percentComplete = p]
    /\ UNCHANGED <<ledgerVars, requests, lastCall, createReq, eventVars, wallClock,
                   rateLimitStore, admitted, lastRate, nonces, issued, held,
                   lastAuth, succeeded>>

\* a document is either followed by its counts, with any number of signers
\* tried at creation, or kept on the ledger with a list of distinct signers
NextProgress ==
    \/ \E n \in 0..(4 * MaxSignersAllowed + 1) : TallyCreate(n)
    \/ TallySign
    \/ /\ tally = NoTally
       /\ \E h \in Hashes, l \in {<<"A">>, <<"B", "A">>, <<"A", "B", "W">>} :
              CreateDocumentTx("B", h, l)
    \/ /\ tally = NoTally
       /\ \E a \in Address, h \in Hashes : SignDocumentTx(a, h, "")
    \/ /\ tally = NoTally
       /\ \E h \in Hashes : RevokeDocumentTx("B", h)

SpecProgress == Init /\ [][NextProgress]_vars

\* C30: for every document of 1 to 50 signers and every number of them that
\* has signed, the percentage read is 100 exactly when all have signed and 0
\* exactly when none has, and the number of signers is never zero; on the
\* ledger, getSigningProgress reports 100 exactly when signedCount equals
\* totalSigners, which is exactly when isFullySigned is true, and 0 exactly
\* when signedCount is 0.
C30_ProgressEndpoints ==
    /\ tally # NoTally =>
           /\ tally.totalSigners >= 1
           /\ tally.percentComplete = 100 <=> tally.signedCount = tally.totalSigners
           /\ tally.percentComplete = 0 <=> tally.signedCount = 0
           /\ tally.percentComplete \in 0..100
    /\ \A h \in Hashes :
           Exists(h) =>
               LET p == getSigningProgress(documents, AllUp, h) IN
               /\ p.success /\ p.totalSigners >= 1
               /\ p.percentComplete \in PercentResults(p.signedCount, p.totalSigners)
               /\ p.percentComplete = 100 <=> p.signedCount = p.totalSigners
               /\ p.percentComplete = 100 <=> isFullySigned(documents, h).value
               /\ p.percentComplete = 100 <=>
                      isDocumentFullySigned(documents, TRUE, h).isFullySigned
               /\ p.percentComplete = 0 <=> p.signedCount = 0

\* C30 witness: 49 of 50 signers have signed and the percentage read is 98
C30_Witness ==
    /\ tally.totalSigners = MaxSignersAllowed
    /\ tally.signedCount = MaxSignersAllowed - 1
    /\ tally.percentComplete = 98

====
